---- MODULE Spec2Model ----
(***************************************************************************)
(* Verification model of the lighthouse beacon-chain core primitives.      *)
(*                                                                         *)
(*   SpecDuties      validator_client/src/duties/mod.rs  DutiesManager     *)
(*   SpecDelegation  beacon_chain/transition/src/delegation/validator.rs   *)
(*   SpecStore       lighthouse/db/src/stores/validator_store.rs           *)
(*   SpecBitfield    lighthouse/utils/boolean_bitfield.rs                  *)
(*   SpecBlock       lighthouse/state/block/ssz_block.rs                   *)
(*   SpecNode        beacon_node/src/main.rs                               *)
(*   SpecOverlay     eth2/utils/cached_tree_hash/src/btree_overlay.rs      *)
(*   SpecSlashing    .../builders/testing_attester_slashing_builder.rs     *)
(*   SpecSplit       .../delegation/validator.rs  honey_badger_split       *)
(*   SpecBuilder     eth2/types/src/beacon_state/builder.rs                *)
(*                                                                         *)
(* Option<T> values are modelled as sequences: <<>> is None, <<x>> is      *)
(* Some(x).                                                                *)
(***************************************************************************)
EXTENDS Integers, Sequences, FiniteSets, TLC

VARIABLES
    \* ---- duties manager (validator_client/src/duties/mod.rs) ----
    duties_map,       \* EpochDutiesMap: (pubkey, epoch) -> Option<EpochDuties>
    epoch_length,     \* spec.epoch_length
    mgr_pubkey,       \* DutiesManager.pubkey of each manager
    pc,               \* position of each manager inside poll()
    epoch,            \* local `epoch` of poll()
    reply,            \* what request_shuffling returned to each manager's poll()
    outcome,          \* what the last poll() of each manager returned
    clock_readers,    \* managers holding a slot_clock read guard
    clock_poisoned,   \* slot_clock RwLock poisoned
    map_writer,       \* holder of the duties_map write guard, <<>> if none
    map_readers,      \* readers holding a duties_map read guard
    map_poisoned,     \* duties_map RwLock poisoned
    superseded,       \* per key, the values the map held and has since replaced
    rd_key,           \* key each reader looked up under its current guard
    rd_val,           \* value each reader obtained for rd_key
    polls,            \* number of poll() calls made so far
    \* ---- committee assigner (.../delegation/validator.rs) ----
    dg_call,          \* the entry point called: generate_cycle or delegate_validators
    dg_input,         \* its arguments
    dg_active,        \* delegate_validators: what active_validator_indicies returned
    dg_shuffled,      \* delegate_validators: what shuffle returned
    dg_generated,     \* whether the call entered generate_cycle
    dg_result,        \* what the call returned, or that it panicked
    \* ---- validator store (lighthouse/db/src/stores/validator_store.rs) ----
    vs_db,            \* the backend's column: db key (bytes) -> Option<bytes>
    vs_op,            \* the last operation on the store, with what it returned
    vs_last_put,      \* per index, the key of the last put that succeeded
    vs_raw,           \* indices whose db key was last written directly with other bytes
    \* ---- bitfield (lighthouse/utils/boolean_bitfield.rs) ----
    bf_origin,        \* the constructor used: new or with_capacity
    bf_len,           \* BooleanBitfield.len
    bf_vec,           \* BooleanBitfield.vec
    bf_last,          \* per index, the value of the last set_bit at it
    bf_max,           \* the largest index passed to set_bit so far, -1 if none
    bf_got,           \* the last get_bit: its index and what it returned
    \* ---- ssz block reader (lighthouse/state/block/ssz_block.rs) ----
    blk_slice,        \* the slice handed to from_slice
    blk_min_record,   \* MIN_SSZ_ATTESTION_RECORD_LENGTH of the build
    blk_result,       \* what from_slice returned
    blk_read,         \* the last accessor called on the SszBlock and its bytes
    \* ---- beacon node process (beacon_node/src/main.rs) ----
    bn_args,          \* --debug-level and the number of -v given
    bn_pc,            \* position of main
    bn_log,           \* the records that passed the level filters
    bn_failed,        \* which step failed: none, config or start
    bn_exit,          \* the exit status of the process, <<>> while it runs
    \* ---- b-tree overlay (eth2/utils/cached_tree_hash/src/btree_overlay.rs) ----
    bt_tree,          \* the BTreeOverlay: offset and lengths
    bt_query,         \* the last method called on it, with its argument
    bt_answer,        \* what it returned
    sl_indices,         \* slashing: the validator_indices passed to double_vote
    sl_task,            \* slashing: the test_task of the last call, "none" before
    sl_slashing,        \* slashing: Option of the AttesterSlashing returned
    hb_list,            \* split: the list handed to honey_badger_split
    hb_n,               \* split: the n of the last call
    hb_result,          \* split: what the last call returned
    bs_state,           \* builder: self.state, an Option<BeaconState>
    bs_genesis_ok,      \* builder: history, genesis() has returned Ok
    bs_panicked,        \* builder: a call has panicked
    bs_last,            \* builder: the last call and what it gave back
    bs_prev             \* builder: the call before the last

dutiesVars == <<duties_map, epoch_length, mgr_pubkey, pc, epoch, reply,
                outcome, clock_readers, clock_poisoned, map_writer, map_readers,
                map_poisoned, polls, superseded, rd_key, rd_val>>

delegationVars == <<dg_call, dg_input, dg_active, dg_shuffled, dg_generated,
                    dg_result>>

storeVars == <<vs_db, vs_op, vs_last_put, vs_raw>>

bitfieldVars == <<bf_origin, bf_len, bf_vec, bf_last, bf_max, bf_got>>

blockVars == <<blk_slice, blk_min_record, blk_result, blk_read>>

nodeVars == <<bn_args, bn_pc, bn_log, bn_failed, bn_exit>>

overlayVars == <<bt_tree, bt_query, bt_answer>>

slashingVars == <<sl_indices, sl_task, sl_slashing>>

splitVars == <<hb_list, hb_n, hb_result>>

builderVars == <<bs_state, bs_genesis_ok, bs_panicked, bs_last, bs_prev>>

vars == <<dutiesVars, delegationVars, storeVars, bitfieldVars, blockVars, nodeVars, overlayVars, slashingVars, splitVars, builderVars>>

\* What the actions of one component leave alone.
otherThanDuties == <<delegationVars, storeVars, bitfieldVars, blockVars, nodeVars, overlayVars, slashingVars, splitVars, builderVars>>
otherThanDelegation == <<dutiesVars, storeVars, bitfieldVars, blockVars, nodeVars, overlayVars, slashingVars, splitVars, builderVars>>
otherThanStore == <<dutiesVars, delegationVars, bitfieldVars, blockVars, nodeVars, overlayVars, slashingVars, splitVars, builderVars>>
otherThanBitfield == <<dutiesVars, delegationVars, storeVars, blockVars, nodeVars, overlayVars, slashingVars, splitVars, builderVars>>
otherThanBlock == <<dutiesVars, delegationVars, storeVars, bitfieldVars, nodeVars, overlayVars, slashingVars, splitVars, builderVars>>
otherThanNode == <<dutiesVars, delegationVars, storeVars, bitfieldVars, blockVars, overlayVars, slashingVars, splitVars, builderVars>>
otherThanOverlay == <<dutiesVars, delegationVars, storeVars, bitfieldVars, blockVars, nodeVars, slashingVars, splitVars, builderVars>>
otherThanSlashing == <<dutiesVars, delegationVars, storeVars, bitfieldVars, blockVars, nodeVars, overlayVars, splitVars, builderVars>>
otherThanSplit == <<dutiesVars, delegationVars, storeVars, bitfieldVars, blockVars, nodeVars, overlayVars, slashingVars, builderVars>>
otherThanBuilder == <<dutiesVars, delegationVars, storeVars, bitfieldVars, blockVars, nodeVars, overlayVars, slashingVars, splitVars>>

-----------------------------------------------------------------------------
(* Bounds                                                                  *)

MaxSlot == 1
MaxPolls == 2
MaxValidators == 8
MaxShards == 4
MaxCycle == 3
MaxMinCommittee == 2
MaxShardStart == 1
MaxRegistry == 2
MaxDynasty == 1
MaxIndex == 1
MaxByte == 1
MaxExtra == 2
MaxVerbosity == 3
MaxLeaves == 4
MaxWidth == 2
MaxOffsets == 1
MaxAttester == 2
MaxAttesters == 3
MaxSplitLen == 4
MaxParts == 3
MaxTeleport == 1
MaxAttestations == 2

-----------------------------------------------------------------------------
(* Duties manager                                                          *)

Managers == {"m1", "m2"}
Readers == {"r1"}
Pubkeys == {"pkA", "pkB"}
Slots == 0..MaxSlot
Epochs == 0..MaxSlot
EpochLengths == {0, 1, 2}

None == <<>>
Some(x) == <<x>>

\* struct EpochDuties { block_production_slot: Option<u64>, shard: Option<u64> }
EpochDuties == [block_production_slot : {Some(10), Some(11)}, shard : {Some(12)}]

\* type EpochDutiesMap = HashMap<(PublicKey, u64), EpochDuties>
Keys == Pubkeys \X Epochs
EpochDutiesMap == [Keys -> {None} \cup {Some(d) : d \in EpochDuties}]

\* enum PollOutcome
PollOutcome == {"NoChange", "NewDuties", "DutiesChanged", "UnknownValidatorOrEpoch"}

\* enum Error
Error == {"SlotClockError", "SlotUnknowable", "EpochMapPoisoned",
          "SlotClockPoisoned", "EpochLengthIsZero", "BeaconNodeError"}

\* No answer from the beacon node (yet).
NoReply == [kind |-> "none", val |-> None]

\* u64::checked_div
checked_div(a, b) == IF b = 0 THEN None ELSE Some(a \div b)

\* HashMap::get
map_get(map, key) == map[key]

\* Mutant of map_insert: entry(key).or_insert(value), which keeps a present entry.
map_insert_keep(map, key, value) ==
    IF map[key] = None THEN [map EXCEPT ![key] = Some(value)] ELSE map

\* Mutant of map_insert: the value is compared but never stored.
map_insert_nothing(map, key, value) == map

\* Mutant of map_insert: the map is replaced by one that holds the new entry only.
map_insert_fresh(map, key, value) ==
    [k \in DOMAIN map |-> IF k = key THEN Some(value) ELSE None]

\* HashMap::insert
map_insert(map, key, value) == [map EXCEPT ![key] = Some(value)]

\* Mutant of compare_duties: the equality test inverted.
compare_duties_inverted(known, d) ==
    IF known # None
    THEN IF known[1] # d THEN "NoChange" ELSE "DutiesChanged"
    ELSE "NewDuties"

\* the comparison of poll(), lines 76-84
compare_duties(known, d) ==
    IF known # None
    THEN IF known[1] = d THEN "NoChange" ELSE "DutiesChanged"
    ELSE "NewDuties"

\* The maps a manager can be constructed over: EpochDutiesMap::new(), or a map
\* that earlier polling has left one entry in.
InitialMaps ==
    {[k \in Keys |-> None]} \cup
    {[k \in Keys |-> IF k = <<"pkA", 0>> THEN Some(d) ELSE None] :
        d \in {[block_production_slot |-> Some(10), shard |-> Some(12)]}}

DutiesInit ==
    /\ duties_map \in InitialMaps
    /\ epoch_length \in EpochLengths
    /\ mgr_pubkey \in {f \in [Managers -> Pubkeys] : f["m1"] = "pkA"}
    /\ pc = [m \in Managers |-> "idle"]
    /\ epoch = [m \in Managers |-> 0]
    /\ reply = [m \in Managers |-> NoReply]
    /\ outcome = [m \in Managers |-> "none"]
    /\ clock_readers = {}
    /\ clock_poisoned = FALSE
    /\ map_writer = None
    /\ map_readers = {}
    /\ map_poisoned = FALSE
    /\ superseded = [k \in Keys |-> {}]
    /\ polls = 0
    /\ rd_key = [r \in Readers |-> None]
    /\ rd_val = [r \in Readers |-> None]

\* The duties manager left alone (no manager polls).
DutiesIdle ==
    /\ duties_map = [k \in Keys |-> None]
    /\ epoch_length = 0
    /\ mgr_pubkey = [m \in Managers |-> "pkA"]
    /\ pc = [m \in Managers |-> "idle"]
    /\ epoch = [m \in Managers |-> 0]
    /\ reply = [m \in Managers |-> NoReply]
    /\ outcome = [m \in Managers |-> "none"]
    /\ clock_readers = {}
    /\ clock_poisoned = FALSE
    /\ map_writer = None
    /\ map_readers = {}
    /\ map_poisoned = FALSE
    /\ superseded = [k \in Keys |-> {}]
    /\ polls = 0
    /\ rd_key = [r \in Readers |-> None]
    /\ rd_val = [r \in Readers |-> None]

\* poll() is entered: self.slot_clock.read().map_err(|_| SlotClockPoisoned)?
PollStart(m) ==
    /\ pc[m] = "idle"
    /\ polls < MaxPolls
    /\ polls' = polls + 1
    /\ IF clock_poisoned
       THEN /\ pc' = [pc EXCEPT ![m] = "done"]
            /\ outcome' = [outcome EXCEPT ![m] = "SlotClockPoisoned"]
            /\ UNCHANGED clock_readers
       ELSE /\ pc' = [pc EXCEPT ![m] = "clock"]
            /\ outcome' = [outcome EXCEPT ![m] = "none"]
            /\ clock_readers' = clock_readers \cup {m}
    /\ UNCHANGED <<duties_map, epoch_length, mgr_pubkey, epoch, reply,
                   clock_poisoned, map_writer, map_readers, map_poisoned,
                   superseded, rd_key, rd_val>>
    /\ UNCHANGED otherThanDuties

\* Mutant of release_clock: the guard bound to a local that lives to the end
\* of poll().
release_clock_late(readers, m) == readers

\* When the slot clock's read guard is dropped: it is a temporary of the
\* `let slot = ...;` statement (lines 57-63) and goes with it.
release_clock(readers, m) == readers \ {m}

\* .present_slot().map_err(|_| SlotClockError)?.ok_or(SlotUnknowable)?, then
\* slot.checked_div(epoch_length).ok_or(EpochLengthIsZero)?, then the call
\* self.beacon_node.request_shuffling(epoch, &self.pubkey) is issued.
ReadSlot(m) ==
    /\ pc[m] = "clock"
    /\ clock_readers' = release_clock(clock_readers, m)
    /\ \/ /\ pc' = [pc EXCEPT ![m] = "done"]
          /\ outcome' = [outcome EXCEPT ![m] = "SlotClockError"]
          /\ UNCHANGED epoch
       \/ /\ pc' = [pc EXCEPT ![m] = "done"]
          /\ outcome' = [outcome EXCEPT ![m] = "SlotUnknowable"]
          /\ UNCHANGED epoch
       \/ \E slot \in Slots :
             LET q == checked_div(slot, epoch_length) IN
             IF q = None
             THEN /\ pc' = [pc EXCEPT ![m] = "done"]
                  /\ outcome' = [outcome EXCEPT ![m] = "EpochLengthIsZero"]
                  /\ UNCHANGED epoch
             ELSE /\ epoch' = [epoch EXCEPT ![m] = q[1]]
                  /\ pc' = [pc EXCEPT ![m] = "inflight"]
                  /\ UNCHANGED outcome
    /\ UNCHANGED <<duties_map, epoch_length, mgr_pubkey, reply,
                   clock_poisoned, map_writer, map_readers, map_poisoned,
                   polls, superseded, rd_key, rd_val>>
    /\ UNCHANGED otherThanDuties

\* Mutant of on_unknown: the cached entry is dropped when the node knows nothing.
on_unknown_remove(map, key) == [map EXCEPT ![key] = None]

\* What poll() does to the map on Ok(None) from request_shuffling (the else
\* branch, line 88).
on_unknown(map, key) == map

\* request_shuffling returns: Err(e) leaves through `?`, Ok(None) through the
\* else branch, Ok(Some(duties)) binds `duties`.
Response(m) ==
    /\ pc[m] = "inflight"
    /\ \/ /\ reply' = [reply EXCEPT ![m] = [kind |-> "Err", val |-> None]]
          /\ pc' = [pc EXCEPT ![m] = "done"]
          /\ outcome' = [outcome EXCEPT ![m] = "BeaconNodeError"]
          /\ UNCHANGED duties_map
       \/ /\ reply' = [reply EXCEPT ![m] = [kind |-> "Ok", val |-> None]]
          /\ pc' = [pc EXCEPT ![m] = "done"]
          /\ outcome' = [outcome EXCEPT ![m] = "UnknownValidatorOrEpoch"]
          /\ duties_map' = on_unknown(duties_map, <<mgr_pubkey[m], epoch[m]>>)
       \/ \E d \in EpochDuties :
             /\ reply' = [reply EXCEPT ![m] = [kind |-> "Ok", val |-> Some(d)]]
             /\ pc' = [pc EXCEPT ![m] = "got"]
             /\ UNCHANGED <<outcome, duties_map>>
    /\ UNCHANGED <<epoch_length, mgr_pubkey, epoch, clock_readers,
                   clock_poisoned, map_writer, map_readers, map_poisoned, polls,
                   superseded, rd_key, rd_val>>
    /\ UNCHANGED otherThanDuties

\* The caller gives up on poll() while request_shuffling is in flight.
Abandon(m) ==
    /\ pc[m] = "inflight"
    /\ pc' = [pc EXCEPT ![m] = "done"]
    /\ outcome' = [outcome EXCEPT ![m] = "Abandoned"]
    /\ UNCHANGED <<duties_map, epoch_length, mgr_pubkey, epoch, reply,
                   clock_readers, clock_poisoned, map_writer, map_readers,
                   map_poisoned, polls, superseded, rd_key, rd_val>>
    /\ UNCHANGED otherThanDuties

\* self.duties_map.write().map_err(|_| EpochMapPoisoned)?: blocks while any
\* guard on the map is out.
AcquireMap(m) ==
    /\ pc[m] = "got"
    /\ map_writer = None
    /\ map_readers = {}
    /\ IF map_poisoned
       THEN /\ pc' = [pc EXCEPT ![m] = "done"]
            /\ outcome' = [outcome EXCEPT ![m] = "EpochMapPoisoned"]
            /\ UNCHANGED map_writer
       ELSE /\ pc' = [pc EXCEPT ![m] = "locked"]
            /\ map_writer' = Some(m)
            /\ UNCHANGED outcome
    /\ UNCHANGED <<duties_map, epoch_length, mgr_pubkey, epoch, reply,
                   clock_readers, clock_poisoned, map_readers, map_poisoned,
                   polls, superseded, rd_key, rd_val>>
    /\ UNCHANGED otherThanDuties

\* Lines 76-86 under the write guard: compare, insert, drop the guard.
CompareInsert(m) ==
    /\ pc[m] = "locked"
    /\ LET key == <<mgr_pubkey[m], epoch[m]>>
           d == reply[m].val[1]
       IN /\ outcome' = [outcome EXCEPT
                 ![m] = compare_duties(map_get(duties_map, key), d)]
          /\ duties_map' = map_insert(duties_map, key, d)
          /\ superseded' = [superseded EXCEPT ![key] =
                 IF map_get(duties_map, key) \notin {None, Some(d)}
                 THEN @ \cup {map_get(duties_map, key)[1]} ELSE @]
    /\ map_writer' = None
    /\ pc' = [pc EXCEPT ![m] = "done"]
    /\ UNCHANGED <<epoch_length, mgr_pubkey, epoch, reply, clock_readers,
                   clock_poisoned, map_readers, map_poisoned, polls,
                   rd_key, rd_val>>
    /\ UNCHANGED otherThanDuties

\* poll() has returned to its caller.
Return(m) ==
    /\ pc[m] = "done"
    /\ pc' = [pc EXCEPT ![m] = "idle"]
    /\ outcome' = [outcome EXCEPT ![m] = "none"]
    /\ reply' = [reply EXCEPT ![m] = NoReply]
    /\ epoch' = [epoch EXCEPT ![m] = 0]
    /\ UNCHANGED <<duties_map, epoch_length, mgr_pubkey, clock_readers,
                   clock_poisoned, map_writer, map_readers, map_poisoned,
                   polls, superseded, rd_key, rd_val>>
    /\ UNCHANGED otherThanDuties

\* A reader takes a shared view of the map (duties_map.read()).
ReaderLock(r) ==
    /\ r \notin map_readers
    /\ map_writer = None
    /\ ~map_poisoned
    /\ map_readers' = map_readers \cup {r}
    /\ UNCHANGED <<duties_map, epoch_length, mgr_pubkey, pc, epoch, reply,
                   outcome, clock_readers, clock_poisoned, map_writer,
                   map_poisoned, polls, superseded, rd_key, rd_val>>
    /\ UNCHANGED otherThanDuties

\* The reader looks a key up through its shared view.
ReaderGet(r) ==
    /\ r \in map_readers
    /\ \E k \in Keys :
          /\ rd_key' = [rd_key EXCEPT ![r] = Some(k)]
          /\ rd_val' = [rd_val EXCEPT ![r] = map_get(duties_map, k)]
    /\ UNCHANGED <<duties_map, epoch_length, mgr_pubkey, pc, epoch, reply,
                   outcome, clock_readers, clock_poisoned, map_writer,
                   map_readers, map_poisoned, polls, superseded>>
    /\ UNCHANGED otherThanDuties

\* The reader drops its shared view, and what it borrowed through it.
ReaderUnlock(r) ==
    /\ r \in map_readers
    /\ map_readers' = map_readers \ {r}
    /\ rd_key' = [rd_key EXCEPT ![r] = None]
    /\ rd_val' = [rd_val EXCEPT ![r] = None]
    /\ UNCHANGED <<duties_map, epoch_length, mgr_pubkey, pc, epoch, reply,
                   outcome, clock_readers, clock_poisoned, map_writer,
                   map_poisoned, polls, superseded>>
    /\ UNCHANGED otherThanDuties

\* A holder of the slot clock's write guard panics: the lock is poisoned.
PoisonClock ==
    /\ ~clock_poisoned
    /\ clock_readers = {}
    /\ clock_poisoned' = TRUE
    /\ UNCHANGED <<duties_map, epoch_length, mgr_pubkey, pc, epoch, reply,
                   outcome, clock_readers, map_writer, map_readers,
                   map_poisoned, polls, superseded, rd_key, rd_val>>
    /\ UNCHANGED otherThanDuties

\* A holder of the map's write guard outside poll() panics: the lock is poisoned.
PoisonMap ==
    /\ ~map_poisoned
    /\ map_writer = None
    /\ map_readers = {}
    /\ map_poisoned' = TRUE
    /\ UNCHANGED <<duties_map, epoch_length, mgr_pubkey, pc, epoch, reply,
                   outcome, clock_readers, clock_poisoned, map_writer,
                   map_readers, polls, superseded, rd_key, rd_val>>
    /\ UNCHANGED otherThanDuties

DutiesNext ==
    \/ \E m \in Managers : PollStart(m)
    \/ \E m \in Managers : ReadSlot(m)
    \/ \E m \in Managers : Response(m)
    \/ \E m \in Managers : Abandon(m)
    \/ \E m \in Managers : AcquireMap(m)
    \/ \E m \in Managers : CompareInsert(m)
    \/ \E m \in Managers : Return(m)
    \/ \E r \in Readers : ReaderLock(r)
    \/ \E r \in Readers : ReaderGet(r)
    \/ \E r \in Readers : ReaderUnlock(r)
    \/ PoisonClock
    \/ PoisonMap


-----------------------------------------------------------------------------
(* Duties manager: properties                                              *)

PollKey(m) == <<mgr_pubkey[m], epoch[m]>>

Changing == {"NewDuties", "DutiesChanged"}
Failures == Error \cup {"Abandoned", "UnknownValidatorOrEpoch"}

\* The outcome the duties contract asks for, given the cached entry and the
\* endpoint's answer d.
Expected(known, d) ==
    CASE known = None -> "NewDuties"
      [] known = Some(d) -> "NoChange"
      [] OTHER -> "DutiesChanged"

GotSome(m) == reply[m].kind = "Ok" /\ reply[m].val # None

\* C1 as stated: whenever the endpoint has answered Some(d), the poll ends with
\* NewDuties / NoChange / DutiesChanged according to the cached entry and the
\* map then holds d; whenever it answers None the poll ends with
\* UnknownValidatorOrEpoch.
C1_AsClaimed ==
    [][\A m \in Managers :
         /\ (GotSome(m) /\ pc[m] # "done" /\ pc'[m] = "done") =>
               /\ outcome'[m] = Expected(duties_map[PollKey(m)], reply[m].val[1])
               /\ duties_map'[PollKey(m)] = reply[m].val
         /\ (pc[m] = "inflight" /\ reply'[m] = [kind |-> "Ok", val |-> None]) =>
               outcome'[m] = "UnknownValidatorOrEpoch"]_vars

\* C1 (amended): when the endpoint answers Some(d) and the duties-map lock is
\* not poisoned, poll returns NewDuties if the map has no entry for
\* (pubkey, epoch), NoChange if the entry equals d, DutiesChanged if it differs,
\* and the map then holds d for that key; when the lock is poisoned poll
\* returns EpochMapPoisoned and the map is untouched; when the endpoint answers
\* None poll returns UnknownValidatorOrEpoch.
C1_PollOutcome ==
    [][\A m \in Managers :
         /\ (pc[m] = "locked" /\ pc'[m] = "done") =>
               /\ GotSome(m)
               /\ outcome'[m] = Expected(duties_map[PollKey(m)], reply[m].val[1])
               /\ duties_map'[PollKey(m)] = reply[m].val
         /\ (pc[m] = "got" /\ pc'[m] # "got") =>
               IF map_poisoned
               THEN /\ pc'[m] = "done"
                    /\ outcome'[m] = "EpochMapPoisoned"
                    /\ duties_map' = duties_map
               ELSE pc'[m] = "locked"
         /\ (pc[m] = "inflight" /\ reply'[m] = [kind |-> "Ok", val |-> None]) =>
               /\ pc'[m] = "done"
               /\ outcome'[m] = "UnknownValidatorOrEpoch"]_vars

\* C1 witness: a poll has just returned DutiesChanged over an entry that
\* differed from the endpoint's answer.
C1_Witness ==
    \E m \in Managers :
       /\ pc[m] = "done"
       /\ outcome[m] = "DutiesChanged"
       /\ duties_map[PollKey(m)] = reply[m].val
       /\ superseded[PollKey(m)] # {}

\* C2 as stated: for a fixed key the map never again holds a value that it
\* held before and that has been superseded.
C2_NeverReverts ==
    \A k \in Keys :
       duties_map[k] # None => duties_map[k][1] \notin superseded[k]

\* C2 (amended): for a fixed key the held value changes exactly in the
\* compare-and-insert of a poll for that key that returns NewDuties or
\* DutiesChanged, and becomes that poll's endpoint answer; an entry is never
\* removed; and a value obtained by a reader stays equal to the map's current
\* value for as long as the reader's shared guard is held (a read never sees
\* anything older than the latest insert). The value may equal one held
\* earlier.
C2_LatestInsertHeld ==
    [][/\ (duties_map' # duties_map \/ \E m \in Managers : pc[m] = "locked") =>
          \A k \in Keys :
            /\ duties_map[k] # None => duties_map'[k] # None
            /\ duties_map'[k] # duties_map[k] =>
                  \E m \in Managers :
                     /\ pc[m] = "locked" /\ pc'[m] = "done" /\ PollKey(m) = k
                     /\ outcome'[m] \in Changing
                     /\ duties_map'[k] = reply[m].val
            /\ \A m \in Managers :
                  (pc[m] = "locked" /\ pc'[m] = "done" /\ PollKey(m) = k
                     /\ outcome'[m] \in Changing) =>
                        /\ duties_map'[k] = reply[m].val
                        /\ duties_map'[k] # duties_map[k]
       /\ \A r \in Readers :
            rd_key'[r] # None =>
               /\ r \in map_readers'
               /\ rd_val'[r] = duties_map'[rd_key'[r][1]]]_vars

\* C2 witness: a reader holds, under its guard, the value of a key whose
\* earlier value was superseded.
C2_Witness ==
    \E r \in Readers :
       /\ rd_key[r] # None
       /\ superseded[rd_key[r][1]] # {}
       /\ rd_val[r] # None

\* C3: a poll that ends in an error (SlotClockPoisoned, SlotClockError,
\* SlotUnknowable, EpochLengthIsZero, BeaconNodeError, EpochMapPoisoned) or in
\* UnknownValidatorOrEpoch, or that is abandoned while request_shuffling is
\* in flight, changes nothing in the duties map: none of its steps touches the map, the compare-and-insert step
\* being the only one that does and never ending in one of these.
C3_FailedPollLeavesMap ==
    [][\A m \in Managers :
         /\ (pc'[m] # pc[m] /\ pc[m] # "locked") => duties_map' = duties_map
         /\ (pc'[m] = "done" /\ pc[m] # "done" /\ outcome'[m] \in Failures) =>
               /\ pc[m] # "locked"
               /\ duties_map' = duties_map]_vars

\* C3 witness: a poll has ended with UnknownValidatorOrEpoch, or abandoned,
\* while the map holds an entry for its key.
C3_Witness ==
    \E m \in Managers :
       /\ pc[m] = "done"
       /\ outcome[m] \in {"UnknownValidatorOrEpoch", "Abandoned"}
       /\ duties_map[PollKey(m)] # None

\* C4: while request_shuffling is in flight the manager holds no lock; the
\* slot-clock guard is held only while the slot is read; the map's write guard
\* is held only for the compare-and-insert step, only after the endpoint
\* answered Some, and never together with the slot-clock guard.
C4_LockDiscipline ==
    \A m \in Managers :
       /\ pc[m] = "inflight" => (m \notin clock_readers /\ map_writer # Some(m))
       /\ m \in clock_readers => pc[m] = "clock"
       /\ map_writer = Some(m) =>
             /\ pc[m] = "locked"
             /\ m \notin clock_readers
             /\ GotSome(m)
       /\ pc[m] = "locked" => map_writer = Some(m)

\* C4 witness: one manager's request is in flight while another holds the
\* map's write guard.
C4_Witness ==
    \E m, n \in Managers :
       /\ pc[m] = "inflight"
       /\ map_writer = Some(n)

-----------------------------------------------------------------------------
(* Committee assigner                                                      *)

Min(a, b) == IF a <= b THEN a ELSE b

\* 0_usize..n collected into a Vec
range_vec(n) == [i \in 1..n |-> i - 1]

NoResult == [status |-> "none", cycle |-> <<>>]
Panicked == [status |-> "Panic", cycle |-> <<>>]
InvalidInput == [status |-> "Err", cycle |-> <<>>]
Ok(cycle) == [status |-> "Ok", cycle |-> cycle]

\* The filter of active_validator_indicies, lines 21-22.
validator_is_active(validator, dynasty) ==
    (validator.start_dynasty >= dynasty) /\ (validator.end_dynasty < dynasty)

RECURSIVE filter_indices(_, _, _)
filter_indices(validators, dynasty, i) ==
    IF i > Len(validators) THEN <<>>
    ELSE (IF validator_is_active(validators[i], dynasty) THEN <<i - 1>> ELSE <<>>)
         \o filter_indices(validators, dynasty, i + 1)

\* fn active_validator_indicies: the (0-based) indices that pass the filter,
\* in registry order.
active_validator_indicies(dynasty, validators) ==
    filter_indices(validators, dynasty, 1)

\* Mutant of chunks: chunks_exact, which leaves a shorter last chunk out.
RECURSIVE chunks_exact(_, _)
chunks_exact(list, n) ==
    IF Len(list) < n THEN <<>>
    ELSE <<SubSeq(list, 1, n)>> \o chunks_exact(SubSeq(list, n + 1, Len(list)), n)

\* slice::chunks(n), n > 0: consecutive chunks of n elements, the last one
\* shorter when n does not divide the length; no chunk for an empty slice.
RECURSIVE chunks(_, _)
chunks(list, n) ==
    IF Len(list) = 0 THEN <<>>
    ELSE IF Len(list) <= n THEN <<list>>
    ELSE <<SubSeq(list, 1, n)>> \o chunks(SubSeq(list, n + 1, Len(list)), n)

\* Mutant of shards_too_few: only an empty shard list is refused.
no_shards(shard_count, cycle_length) == shard_count = 0

\* The guard of generate_cycle, line 98 (cycle_length > 0).
shards_too_few(shard_count, cycle_length) == shard_count \div cycle_length = 0

\* Mutant of double_slots_per_committee: it stops before passing
\* cycle_length.
RECURSIVE double_slots_capped(_, _, _, _)
double_slots_capped(slots_per_committee, validator_count, cycle_length, min_committee_size) ==
    IF (validator_count * slots_per_committee < cycle_length * min_committee_size)
          /\ (slots_per_committee * 2 <= cycle_length)
    THEN double_slots_capped(slots_per_committee * 2, validator_count,
                             cycle_length, min_committee_size)
    ELSE slots_per_committee

\* The while loop of lines 114-118.
RECURSIVE double_slots_per_committee(_, _, _, _)
double_slots_per_committee(slots_per_committee, validator_count, cycle_length, min_committee_size) ==
    IF (validator_count * slots_per_committee < cycle_length * min_committee_size)
          /\ (slots_per_committee < cycle_length)
    THEN double_slots_per_committee(slots_per_committee * 2, validator_count,
                                    cycle_length, min_committee_size)
    ELSE slots_per_committee

\* (committees_per_slot, slots_per_committee), lines 105-121; cycle_length > 0,
\* and min_committee_size > 0 in the first branch.
committee_shape(validator_count, shard_count, cycle_length, min_committee_size) ==
    IF validator_count >= cycle_length * min_committee_size
    THEN [committees_per_slot |->
              Min(((validator_count \div cycle_length)
                      \div (min_committee_size * 2)) + 1,
                  shard_count \div cycle_length),
          slots_per_committee |-> 1]
    ELSE [committees_per_slot |-> 1,
          slots_per_committee |->
              double_slots_per_committee(1, validator_count, cycle_length,
                                         min_committee_size)]

\* `as u16`
as_u16(x) == x % 65536

\* Mutant of build_cycle: shard_id_start without the division by
\* slots_per_committee.
build_cycle_undivided(validator_indices, shard_count, crosslinking_shard_start, committees_per_slot, slots_per_committee, slot_chunk) ==
    LET slots == chunks(validator_indices, slot_chunk) IN
    [s \in 1..Len(slots) |->
        LET i == s - 1
            shard_id_start == crosslinking_shard_start + (i * committees_per_slot)
            slot_indices == slots[s]
            committees == chunks(slot_indices,
                                 Len(slot_indices) \div committees_per_slot)
        IN [c \in 1..Len(committees) |->
               [shard_id |-> as_u16((shard_id_start + (c - 1)) % shard_count),
                committee |-> committees[c]]]]

\* The two nested chunks().enumerate().map() of lines 123-139, both chunk
\* sizes being positive.
build_cycle(validator_indices, shard_count, crosslinking_shard_start, committees_per_slot, slots_per_committee, slot_chunk) ==
    LET slots == chunks(validator_indices, slot_chunk) IN
    [s \in 1..Len(slots) |->
        LET i == s - 1
            shard_id_start == crosslinking_shard_start
                                + ((i * committees_per_slot) \div slots_per_committee)
            slot_indices == slots[s]
            committees == chunks(slot_indices,
                                 Len(slot_indices) \div committees_per_slot)
        IN [c \in 1..Len(committees) |->
               [shard_id |-> as_u16((shard_id_start + (c - 1)) % shard_count),
                committee |-> committees[c]]]]

\* fn generate_cycle. A division by zero and a chunks(0) panic.
generate_cycle(validator_indices, shard_indices, crosslinking_shard_start, cycle_length, min_committee_size) ==
    LET validator_count == Len(validator_indices)
        shard_count == Len(shard_indices)
    IN
    IF cycle_length = 0 THEN Panicked
    ELSE IF shards_too_few(shard_count, cycle_length) THEN InvalidInput
    ELSE IF validator_count >= cycle_length * min_committee_size
               /\ min_committee_size = 0 THEN Panicked
    ELSE
      LET shape == committee_shape(validator_count, shard_count, cycle_length,
                                   min_committee_size)
          slot_chunk == validator_count \div cycle_length
      IN
      IF slot_chunk = 0 THEN Panicked
      ELSE IF shape.committees_per_slot = 0 THEN Panicked
      ELSE IF \E s \in 1..Len(chunks(validator_indices, slot_chunk)) :
                 Len(chunks(validator_indices, slot_chunk)[s])
                    \div shape.committees_per_slot = 0
      THEN Panicked
      ELSE Ok(build_cycle(validator_indices, shard_count, crosslinking_shard_start,
                          shape.committees_per_slot, shape.slots_per_committee,
                          slot_chunk))

\* struct ValidatorRecord, the two fields the assigner reads
ValidatorRecord == [start_dynasty : 0..MaxDynasty, end_dynasty : 0..MaxDynasty]

Registries == UNION {[1..n -> ValidatorRecord] : n \in 0..MaxRegistry}

\* The permutations of a list.
Permutations_of(list) ==
    {[i \in 1..Len(list) |-> list[p[i]]] :
        p \in {q \in [1..Len(list) -> 1..Len(list)] :
                  \A a, b \in 1..Len(list) : a # b => q[a] # q[b]}}

\* shuffle(seed, list): Err when the list is too long, else Ok(a permutation
\* fixed by the seed and the length). A list of the failing length (2^24) is out
\* of reach here, so both outcomes are admitted for every list.
shuffle_outcomes(list) ==
    {[ok |-> FALSE, list |-> <<>>]}
       \cup {[ok |-> TRUE, list |-> l] : l \in Permutations_of(list)}

\* The arguments of a direct call of generate_cycle, as generate_cycle_helper
\* builds them (validator_indices = 0..validator_count).
GenerateInput(validator_count, shard_count, start, cycle_length, min_size) ==
    [validators |-> <<>>, dynasty |-> 0,
     validator_indices |-> range_vec(validator_count),
     shard_count |-> shard_count,
     crosslinking_shard_start |-> start,
     cycle_length |-> cycle_length,
     min_committee_size |-> min_size]

\* tests::test_generate_cycle
ScenarioS1 == GenerateInput(100, 10, 0, 20, 10)

\* tests::test_generate_cycle_committees_bounded
ScenarioS2 == GenerateInput(101, 15, 0, 10, 10)

GenerateInputs ==
    {GenerateInput(n, sc, st, cl, mc) :
        n \in 0..MaxValidators, sc \in 0..MaxShards, st \in 0..MaxShardStart,
        cl \in 0..MaxCycle, mc \in 0..MaxMinCommittee}
      \cup {ScenarioS1, ScenarioS2}

\* The arguments of delegate_validators: a registry, a dynasty and a config;
\* the list split itself is exercised by the direct calls above.
DelegateInputs ==
    {[validators |-> reg, dynasty |-> dy, validator_indices |-> <<>>,
      shard_count |-> sc, crosslinking_shard_start |-> 0,
      cycle_length |-> cl, min_committee_size |-> 1] :
        reg \in Registries, dy \in 0..MaxDynasty, sc \in 1..2, cl \in 1..2}

DelegationIdle ==
    /\ dg_call = "none"
    /\ dg_input = GenerateInput(0, 0, 0, 0, 0)
    /\ dg_active = <<>>
    /\ dg_shuffled = [ok |-> FALSE, list |-> <<>>]
    /\ dg_generated = FALSE
    /\ dg_result = NoResult

DelegationInit ==
    /\ \/ dg_call = "generate_cycle" /\ dg_input \in GenerateInputs
       \/ dg_call = "delegate_validators" /\ dg_input \in DelegateInputs
    /\ dg_active = <<>>
    /\ dg_shuffled = [ok |-> FALSE, list |-> <<>>]
    /\ dg_generated = FALSE
    /\ dg_result = NoResult

\* A direct call of generate_cycle (tests::generate_cycle_helper).
GenerateCycle ==
    /\ dg_call = "generate_cycle"
    /\ dg_result = NoResult
    /\ dg_result' = generate_cycle(dg_input.validator_indices,
                                   range_vec(dg_input.shard_count),
                                   dg_input.crosslinking_shard_start,
                                   dg_input.cycle_length,
                                   dg_input.min_committee_size)
    /\ dg_generated' = TRUE
    /\ UNCHANGED <<dg_call, dg_input, dg_active, dg_shuffled>>
    /\ UNCHANGED otherThanDelegation

\* Mutant of after_shuffle: a failed shuffle is taken for an empty list and
\* passed on.
after_shuffle_unchecked(sh, input) ==
    [generated |-> TRUE,
     result |-> generate_cycle(sh.list, range_vec(input.shard_count),
                               input.crosslinking_shard_start,
                               input.cycle_length, input.min_committee_size)]

\* The match on shuffle's result and the call of generate_cycle, lines 65-80.
after_shuffle(sh, input) ==
    IF ~sh.ok
    THEN [generated |-> FALSE, result |-> InvalidInput]
    ELSE [generated |-> TRUE,
          result |-> generate_cycle(sh.list, range_vec(input.shard_count),
                                    input.crosslinking_shard_start,
                                    input.cycle_length, input.min_committee_size)]

\* fn delegate_validators: filter, shuffle, then generate_cycle unless the
\* shuffle failed.
DelegateValidators ==
    /\ dg_call = "delegate_validators"
    /\ dg_result = NoResult
    /\ LET validator_indices ==
               active_validator_indicies(dg_input.dynasty, dg_input.validators)
       IN /\ dg_active' = validator_indices
          /\ \E sh \in shuffle_outcomes(validator_indices) :
                /\ dg_shuffled' = sh
                /\ dg_generated' = after_shuffle(sh, dg_input).generated
                /\ dg_result' = after_shuffle(sh, dg_input).result
    /\ UNCHANGED <<dg_call, dg_input>>
    /\ UNCHANGED otherThanDelegation

DelegationNext ==
    \/ GenerateCycle
    \/ DelegateValidators

-----------------------------------------------------------------------------
(* Committee assigner: properties                                          *)

Returned == dg_result # NoResult

\* The list generate_cycle was given.
CycleInput ==
    IF dg_call = "generate_cycle" THEN dg_input.validator_indices
    ELSE dg_shuffled.list

RECURSIVE concat(_)
concat(lists) ==
    IF Len(lists) = 0 THEN <<>> ELSE Head(lists) \o concat(Tail(lists))

\* tests::flatten_validators
flatten_validators(cycle) ==
    concat([s \in 1..Len(cycle) |->
              concat([c \in 1..Len(cycle[s]) |-> cycle[s][c].committee])])

\* tests::flatten_shards_in_slots
flatten_shards_in_slots(cycle) ==
    [s \in 1..Len(cycle) |-> [c \in 1..Len(cycle[s]) |-> cycle[s][c].shard_id]]

\* The places (slot, committee, position) of a cycle that hold validator v.
PlacesOf(cycle, v) ==
    {<<s, c, k>> \in (1..Len(cycle)) \X (1..MaxValidators + 1) \X (1..MaxValidators + 1) :
        /\ c <= Len(cycle[s])
        /\ k <= Len(cycle[s][c].committee)
        /\ cycle[s][c].committee[k] = v}

\* C5: whenever generate_cycle returns Ok, the committees of the cycle read in
\* (slot, committee) order are exactly the list it was given, in the same
\* order, and every validator of the list sits in exactly one committee.
C5_CommitteeCoverage ==
    dg_result.status = "Ok" =>
       /\ flatten_validators(dg_result.cycle) = CycleInput
       /\ Len(CycleInput) <= MaxValidators =>
             \A k \in 1..Len(CycleInput) :
                Cardinality(PlacesOf(dg_result.cycle, CycleInput[k])) = 1

\* C5 witness: an accepted call whose list does not split evenly, so that the
\* last slot is shorter than the first.
C5_Witness ==
    /\ dg_result.status = "Ok"
    /\ Len(dg_result.cycle) >= 3
    /\ Len(flatten_validators(<<dg_result.cycle[Len(dg_result.cycle)]>>))
          < Len(flatten_validators(<<dg_result.cycle[1]>>))

\* C6: whenever delegate_validators / generate_cycle returns Ok, the cycle has
\* exactly cycle_length slots.
C6_CycleLength ==
    dg_result.status = "Ok" => Len(dg_result.cycle) = dg_input.cycle_length

\* C7: on validator_count=100, shard_count=10, crosslinking_shard_start=0,
\* cycle_length=20, min_committee_size=10, generate_cycle succeeds, the
\* flattened committees are [0..100) and the shard ids per slot are
\* [[0],[0],[1],[1],...,[9],[9]].
C7_ScenarioS1 ==
    (dg_call = "generate_cycle" /\ dg_input = ScenarioS1 /\ Returned) =>
       /\ dg_result.status = "Ok"
       /\ flatten_validators(dg_result.cycle) = range_vec(100)
       /\ flatten_shards_in_slots(dg_result.cycle)
             = [s \in 1..20 |-> <<(s - 1) \div 2>>]

C9_NeverPanics ==
    (Returned /\ dg_input.cycle_length >= 1 /\ dg_input.min_committee_size >= 1
        /\ dg_input.shard_count >= 1) =>
           dg_result.status \in {"Ok", "Err"}

\* Active as the data model defines it: start_dynasty <= dynasty < end_dynasty.
validator_in_dynasty(validator, dynasty) ==
    validator.start_dynasty <= dynasty /\ dynasty < validator.end_dynasty

RECURSIVE in_dynasty_indices(_, _, _)
in_dynasty_indices(validators, dynasty, i) ==
    IF i > Len(validators) THEN <<>>
    ELSE (IF validator_in_dynasty(validators[i], dynasty) THEN <<i - 1>> ELSE <<>>)
         \o in_dynasty_indices(validators, dynasty, i + 1)

\* C10: the active set delegate_validators uses is exactly the indices i with
\* validators[i].start_dynasty <= dynasty < validators[i].end_dynasty, in
\* registry order.
C10_ActiveSet ==
    (Returned /\ dg_call = "delegate_validators") =>
       dg_active = in_dynasty_indices(dg_input.validators, dg_input.dynasty, 1)

\* All committees of a cycle, in (slot, j) order.
committees_of(cycle) == concat(cycle)

\* C11: for every input generate_cycle accepts, no slot of the returned cycle
\* holds more than floor(shard_count / cycle_length) committees.
C11_CommitteesPerSlotBound ==
    dg_result.status = "Ok" =>
       \A s \in 1..Len(dg_result.cycle) :
          Len(dg_result.cycle[s]) <= dg_input.shard_count \div dg_input.cycle_length

\* C12: in every returned cycle each committee has at least min_committee_size
\* members, unless the list is shorter than cycle_length * min_committee_size,
\* and then every slot holds exactly one committee.
C12_MinCommitteeSize ==
    dg_result.status = "Ok" =>
       IF Len(CycleInput) >= dg_input.cycle_length * dg_input.min_committee_size
       THEN \A k \in 1..Len(committees_of(dg_result.cycle)) :
               Len(committees_of(dg_result.cycle)[k].committee)
                  >= dg_input.min_committee_size
       ELSE \A s \in 1..Len(dg_result.cycle) : Len(dg_result.cycle[s]) = 1

\* C13: in every returned cycle the sizes of any two committees differ by at
\* most one.
C13_CommitteeSizesBalanced ==
    dg_result.status = "Ok" =>
       \A a, b \in 1..Len(committees_of(dg_result.cycle)) :
          Len(committees_of(dg_result.cycle)[a].committee)
             - Len(committees_of(dg_result.cycle)[b].committee) <= 1

\* C14 as stated: in every returned cycle, reading the committees in (slot, j)
\* order, no two consecutive committees carry the same shard id.
C14_AsClaimed ==
    dg_result.status = "Ok" =>
       \A k \in 1..Len(committees_of(dg_result.cycle)) - 1 :
          committees_of(dg_result.cycle)[k + 1].shard_id
             # committees_of(dg_result.cycle)[k].shard_id

\* The shape generate_cycle computed for the call that returned.
ResultShape ==
    committee_shape(Len(CycleInput), dg_input.shard_count, dg_input.cycle_length,
                    dg_input.min_committee_size)

\* floor(i * committees_per_slot / slots_per_committee)
slot_offset(i) ==
    (i * ResultShape.committees_per_slot) \div ResultShape.slots_per_committee

\* C14 (amended): in every returned cycle the first committee of slot 0 carries
\* crosslinking_shard_start mod shard_count; inside a slot the shard id advances
\* by exactly one (mod shard_count) from each committee to the next; from slot
\* i to slot i+1 the first shard id advances (mod shard_count) by
\* floor((i+1) * cps / spc) - floor(i * cps / spc), which is 0 for the slots
\* that share a committee shard when slots_per_committee > 1.
C14_ShardRoundRobin ==
    dg_result.status = "Ok" =>
       /\ Len(dg_result.cycle) > 0 =>
             dg_result.cycle[1][1].shard_id
                = dg_input.crosslinking_shard_start % dg_input.shard_count
       /\ \A s \in 1..Len(dg_result.cycle) :
             \A c \in 1..Len(dg_result.cycle[s]) - 1 :
                dg_result.cycle[s][c + 1].shard_id
                   = (dg_result.cycle[s][c].shard_id + 1) % dg_input.shard_count
       /\ \A s \in 1..Len(dg_result.cycle) - 1 :
             dg_result.cycle[s + 1][1].shard_id
                = (dg_result.cycle[s][1].shard_id
                     + slot_offset(s) - slot_offset(s - 1)) % dg_input.shard_count

\* C14 witness: a returned cycle in which two consecutive slots share a shard
\* id (slots_per_committee > 1) and a later slot carries the next one.
C14_Witness ==
    /\ dg_result.status = "Ok"
    /\ ResultShape.slots_per_committee > 1
    /\ Len(dg_result.cycle) >= 3
    /\ dg_result.cycle[2][1].shard_id = dg_result.cycle[1][1].shard_id
    /\ dg_result.cycle[3][1].shard_id # dg_result.cycle[1][1].shard_id


-----------------------------------------------------------------------------
(* Validator store                                                         *)

\* The indices put and looked up: small ones, and ones whose big-endian
\* encoding differs from theirs above the lowest byte only.
Indices == (0..MaxIndex) \cup {256}

PublicKeys == {"K1", "K2"}

\* PublicKey::as_bytes
as_bytes(public_key) == IF public_key = "K1" THEN <<161, 1>> ELSE <<162, 2>>

\* "cats".as_bytes(), the value tests::test_validator_store_bad_key stores
CatsBytes == <<99, 97, 116, 115>>

\* PublicKey::from_bytes: Some(key) for the bytes of a key, None (Err) for
\* any other bytes.
from_bytes(bytes) ==
    IF \E k \in PublicKeys : as_bytes(k) = bytes
    THEN Some(CHOOSE k \in PublicKeys : as_bytes(k) = bytes)
    ELSE None

\* fn prefix_bytes: b"pubkey"
prefix_bytes == <<112, 117, 98, 107, 101, 121>>

\* Mutant of put_u64_be: the lowest byte only.
put_u64_low_byte(x, n) == <<x % 256>>

\* BufMut::put_u64_be: the n (= 8) big-endian bytes of x.
RECURSIVE put_u64_be(_, _)
put_u64_be(x, n) ==
    IF n = 0 THEN <<>> ELSE put_u64_be(x \div 256, n - 1) \o <<x % 256>>

\* fn get_db_key_for_index (`index as u64` widens and keeps the value)
get_db_key_for_index(index) == prefix_bytes \o put_u64_be(index, 8)

DbKeys == {get_db_key_for_index(i) : i \in Indices}

\* DBError.message
Messages == {"io", "closed"}

\* Result<_, ValidatorStoreError>, with the Option<PublicKey> of a get
StoreOk(key) == [status |-> "Ok", key |-> key, msg |-> None]
DecodeError == [status |-> "DecodeError", key |-> None, msg |-> None]

\* impl From<DBError> for ValidatorStoreError
from_db_error(message) == [status |-> "DBError", key |-> None, msg |-> Some(message)]

\* ClientDB::put: the backend either fails with a message and stores nothing,
\* or stores the value under the key.
db_put(db, key, val, fault) ==
    IF fault # None THEN db ELSE [db EXCEPT ![key] = Some(val)]

\* ClientDB::get
db_get(db, key) == db[key]

\* Mutant of decode_stored: bytes that do not parse are taken for an absent key.
decode_stored_lenient(val) ==
    IF val = None THEN StoreOk(None)
    ELSE StoreOk(from_bytes(val[1]))

\* The match of get_public_key_by_index, lines 69-75.
decode_stored(val) ==
    IF val = None THEN StoreOk(None)
    ELSE IF from_bytes(val[1]) # None THEN StoreOk(from_bytes(val[1]))
    ELSE DecodeError

NoOp == [kind |-> "none", index |-> 0, fault |-> None, result |-> StoreOk(None)]

\* MemoryDB::open() and ValidatorStore::new(db)
StoreInit ==
    /\ vs_db = [k \in DbKeys |-> None]
    /\ vs_op = NoOp
    /\ vs_last_put = [i \in Indices |-> None]
    /\ vs_raw = {}

\* The store left alone: no backend opened.
StoreIdle ==
    /\ vs_db = <<>>
    /\ vs_op = NoOp
    /\ vs_last_put = <<>>
    /\ vs_raw = {}

\* fn put_public_key_by_index
PutPublicKeyByIndex(index, public_key, fault) ==
    /\ LET key == get_db_key_for_index(index)
           val == as_bytes(public_key)
       IN /\ vs_db' = db_put(vs_db, key, val, fault)
          /\ vs_op' = [kind |-> "put", index |-> index, fault |-> fault,
                       result |-> IF fault # None THEN from_db_error(fault[1])
                                  ELSE StoreOk(None)]
    /\ vs_last_put' = IF fault # None THEN vs_last_put
                      ELSE [vs_last_put EXCEPT ![index] = Some(public_key)]
    /\ vs_raw' = IF fault # None THEN vs_raw ELSE vs_raw \ {index}
    /\ UNCHANGED otherThanStore

\* fn get_public_key_by_index
GetPublicKeyByIndex(index, fault) ==
    /\ LET key == get_db_key_for_index(index)
       IN vs_op' = [kind |-> "get", index |-> index, fault |-> fault,
                    result |-> IF fault # None THEN from_db_error(fault[1])
                               ELSE decode_stored(db_get(vs_db, key))]
    /\ UNCHANGED <<vs_db, vs_last_put, vs_raw>>
    /\ UNCHANGED otherThanStore

\* db.put(DB_COLUMN, &key[..], "cats".as_bytes()) on the backend itself, as
\* tests::test_validator_store_bad_key does.
RawPut(index) ==
    /\ vs_db' = db_put(vs_db, get_db_key_for_index(index), CatsBytes, None)
    /\ vs_op' = [kind |-> "raw", index |-> index, fault |-> None,
                 result |-> StoreOk(None)]
    /\ vs_raw' = vs_raw \cup {index}
    /\ UNCHANGED vs_last_put
    /\ UNCHANGED otherThanStore

Faults == {None} \cup {Some(m) : m \in Messages}

StoreNext ==
    \/ \E i \in Indices, k \in PublicKeys, f \in Faults : PutPublicKeyByIndex(i, k, f)
    \/ \E i \in Indices, f \in Faults : GetPublicKeyByIndex(i, f)
    \/ \E i \in Indices : RawPut(i)

-----------------------------------------------------------------------------
(* Validator store: properties                                             *)

\* What get_public_key_by_index(index) returns from the present store when the
\* backend does not fail.
lookup(index) == decode_stored(db_get(vs_db, get_db_key_for_index(index)))

\* C15: after any sequence of puts (a put the backend refused stores nothing),
\* a get of index i returns Some(K), K the key of the most recent put at i,
\* and None if i was never put; this holds for every index after every
\* operation, so a put at i changes the answer for no other index; distinct
\* indices have distinct 14-byte db keys. (Indices whose db key was last
\* written directly on the backend are outside the claim.)
C15_PutGet ==
    /\ \A i \in Indices \ vs_raw : lookup(i) = StoreOk(vs_last_put[i])
    /\ (vs_op.kind = "get" /\ vs_op.fault = None /\ vs_op.index \notin vs_raw) =>
          vs_op.result = StoreOk(vs_last_put[vs_op.index])
    /\ \A i, j \in Indices :
          /\ Len(get_db_key_for_index(i)) = 14
          /\ i # j => get_db_key_for_index(i) # get_db_key_for_index(j)

\* C15 witness: a get of index 256 has returned the key put there, while
\* index 0 holds another key and index 1 was never put.
C15_Witness ==
    /\ vs_op.kind = "get"
    /\ vs_op.index = 256
    /\ vs_op.result = StoreOk(Some("K2"))
    /\ vs_last_put[0] = Some("K1")
    /\ vs_last_put[1] = None
    /\ vs_raw = {}

\* C16: a get whose stored bytes do not parse as a public key returns
\* Err(DecodeError); a get or put the backend fails returns DBError with the
\* backend's message; none of these changes the store.
C16_StoreErrors ==
    [][/\ vs_op'.kind = "get" =>
            /\ vs_db' = vs_db
            /\ vs_op'.fault # None =>
                  vs_op'.result = [status |-> "DBError", key |-> None,
                                   msg |-> vs_op'.fault]
            /\ (/\ vs_op'.fault = None
                /\ vs_db[get_db_key_for_index(vs_op'.index)] # None
                /\ from_bytes(vs_db[get_db_key_for_index(vs_op'.index)][1]) = None) =>
                  vs_op'.result = DecodeError
       /\ (vs_op'.kind = "put" /\ vs_op'.fault # None) =>
            /\ vs_db' = vs_db
            /\ vs_op'.result = [status |-> "DBError", key |-> None,
                                msg |-> vs_op'.fault]]_vars

\* C16 witness: a get has returned DecodeError for an index whose db key holds
\* "cats", and the bytes are still there.
C16_Witness ==
    /\ vs_op.kind = "get"
    /\ vs_op.result = DecodeError
    /\ vs_db[get_db_key_for_index(vs_op.index)] = Some(CatsBytes)

-----------------------------------------------------------------------------
(* Boolean bitfield                                                        *)

\* The indices passed to set_bit: the lowest and the highest bit of each byte
\* (0, 7, 8, 15 as in tests::test_bitfield_set). An index so large that
\* `*bit + 1` overflows or the resize cannot be allocated ends the process
\* inside set_bit and leaves no bitfield to look at.
SetIndices == {8 * b + o : b \in 0..MaxByte, o \in {0, 7}}

\* The indices passed to get_bit: those, and the ones around and beyond them.
GetIndices == 0..(8 * (MaxByte + 2) - 1)

\* std::cmp::max
Max(a, b) == IF a >= b THEN a ELSE b

\* byte & (1 << (bit as u8)) != 0
bit_is_set(byte, bit) == (byte \div (2 ^ bit)) % 2 = 1

\* byte | (1 << (bit as u8))
or_bit(byte, bit) == IF bit_is_set(byte, bit) THEN byte ELSE byte + 2 ^ bit

\* Mutant of and_not_bit: byte & (1 << bit), which clears every other bit.
and_bit(byte, bit) == IF bit_is_set(byte, bit) THEN 2 ^ bit ELSE 0

\* byte & !(1 << (bit as u8))
and_not_bit(byte, bit) == IF bit_is_set(byte, bit) THEN byte - 2 ^ bit ELSE byte

\* Vec::resize(new_len, 0) with new_len > vec.len()
resize(vec, new_len) == vec \o [k \in 1..(new_len - Len(vec)) |-> 0]

\* fn get_bit_on_byte (bit < 8)
get_bit_on_byte(vec, bit, byte) ==
    IF byte >= Len(vec) THEN FALSE ELSE bit_is_set(vec[byte + 1], bit)

\* fn get_bit
get_bit(vec, i) == get_bit_on_byte(vec, i % 8, i \div 8)

\* fn set_bit_on_byte (bit < 8)
set_bit_on_byte(vec, bit, byte, val) ==
    LET v == IF byte >= Len(vec) THEN resize(vec, byte + 1) ELSE vec
    IN [v EXCEPT ![byte + 1] = IF val THEN or_bit(v[byte + 1], bit)
                                ELSE and_not_bit(v[byte + 1], bit)]

\* Mutant of grown_len: the length of the last index set.
last_len(len, bit) == bit + 1

\* self.len = max(self.len, *bit + 1), line 55
grown_len(len, bit) == Max(len, bit + 1)

\* The number of bits set in one byte, the inner loop of num_true_bits.
byte_true_bits(byte) == Cardinality({bit \in 0..7 : bit_is_set(byte, bit)})

\* fn num_true_bits
RECURSIVE num_true_bits(_)
num_true_bits(vec) ==
    IF Len(vec) = 0 THEN 0 ELSE byte_true_bits(Head(vec)) + num_true_bits(Tail(vec))

NoGet == [index |-> 0, value |-> FALSE, done |-> FALSE]

\* BooleanBitfield::new() or BooleanBitfield::with_capacity(n): len 0 and an
\* empty vec either way.
BitfieldInit ==
    /\ bf_origin \in {"new", "with_capacity"}
    /\ bf_len = 0
    /\ bf_vec = <<>>
    /\ bf_last = [i \in SetIndices |-> None]
    /\ bf_max = -1
    /\ bf_got = NoGet

\* The bitfield left alone.
BitfieldIdle ==
    /\ bf_origin = "new"
    /\ bf_len = 0
    /\ bf_vec = <<>>
    /\ bf_last = <<>>
    /\ bf_max = -1
    /\ bf_got = NoGet

\* fn set_bit
SetBit(bit, to) ==
    /\ bf_len' = grown_len(bf_len, bit)
    /\ bf_vec' = set_bit_on_byte(bf_vec, bit % 8, bit \div 8, to)
    /\ bf_last' = [bf_last EXCEPT ![bit] = Some(to)]
    /\ bf_max' = Max(bf_max, bit)
    /\ UNCHANGED <<bf_origin, bf_got>>
    /\ UNCHANGED otherThanBitfield

\* fn get_bit
GetBit(i) ==
    /\ bf_got' = [index |-> i, value |-> get_bit(bf_vec, i), done |-> TRUE]
    /\ UNCHANGED <<bf_origin, bf_len, bf_vec, bf_last, bf_max>>
    /\ UNCHANGED otherThanBitfield

BitfieldNext ==
    \/ \E bit \in SetIndices, to \in BOOLEAN : SetBit(bit, to)
    \/ \E i \in GetIndices : GetBit(i)

-----------------------------------------------------------------------------
(* Boolean bitfield: properties                                            *)

\* The value last set at index i, false if it was never set.
LastSet(i) == i \in SetIndices /\ bf_last[i] = Some(TRUE)

\* C17: after any sequence of set_bit calls on a new bitfield, get_bit(i) is
\* the value most recently set at i, and false for every index never set,
\* those at or beyond len() included; as this holds after every call for
\* every index, a set_bit(i, v) changes no bit other than i.
C17_GetAfterSet ==
    /\ \A i \in GetIndices : get_bit(bf_vec, i) = LastSet(i)
    /\ \A i \in GetIndices : i >= bf_len => ~get_bit(bf_vec, i)
    /\ bf_got.done => (bf_got.value = TRUE => bf_got.index \in SetIndices)

\* C17 witness: bit 7 was set and then cleared while bit 0 stays set, and a
\* get_bit beyond len() has returned false.
C17_Witness ==
    /\ bf_last[7] = Some(FALSE)
    /\ bf_last[0] = Some(TRUE)
    /\ get_bit(bf_vec, 0)
    /\ bf_got.done /\ bf_got.index >= bf_len /\ ~bf_got.value

\* C18: in every state reached from new() or with_capacity(n) by set_bit
\* calls, len() is 1 + the largest index ever set (0 if none) and never
\* decreases, vec holds exactly ceil(len / 8) bytes, every stored bit at a
\* position >= len() is zero, and num_true_bits() is the number of indices
\* below len() that read true.
C18_LenAndStorage ==
    /\ [](/\ bf_len = bf_max + 1
          /\ Len(bf_vec) = (bf_len + 7) \div 8
          /\ \A p \in 0..(8 * Len(bf_vec) - 1) :
                p >= bf_len => ~get_bit(bf_vec, p)
          /\ num_true_bits(bf_vec)
                = Cardinality({i \in 0..(bf_len - 1) : get_bit(bf_vec, i)}))
    /\ [][bf_len' >= bf_len]_vars

\* C18 witness: after a higher index, a lower one was set: len() is 9, two
\* bytes are stored and two bits are true.
C18_Witness ==
    /\ bf_origin = "with_capacity"
    /\ bf_len = 9
    /\ bf_last[8] = Some(FALSE)
    /\ bf_last[0] = Some(TRUE)
    /\ bf_last[7] = Some(TRUE)
    /\ num_true_bits(bf_vec) = 2

-----------------------------------------------------------------------------
(* SSZ block reader                                                        *)

LENGTH_BYTES == 4

\* 32 + 8 + 32 + LENGTH_BYTES + 32 + 32 + 32
MIN_SSZ_BLOCK_LENGTH == 32 + 8 + 32 + LENGTH_BYTES + 32 + 32 + 32

\* MIN_SSZ_BLOCK_LENGTH + (1 << 24)
MAX_SSZ_BLOCK_LENGTH == MIN_SSZ_BLOCK_LENGTH + 2 ^ 24

\* MIN_SSZ_ATTESTION_RECORD_LENGTH is defined in attestation_record.rs; the
\* tests of this file need it to be positive, and larger than the encoding of
\* one zero record. Both a smallest and a record-sized value are covered.
MinRecordLengths == {1, 111}

\* The n little-endian bytes of x.
RECURSIVE le_bytes(_, _)
le_bytes(x, n) == IF n = 0 THEN <<>> ELSE <<x % 256>> \o le_bytes(x \div 256, n - 1)

\* A slice: its length, the four bytes at 72..76 and a rule for every other
\* byte (all zero, as Block::zero() encodes, or changing with the position).
Slice(len, field, fill) == [len |-> len, field |-> field, fill |-> fill]

\* The byte of a slice at position p < len.
byte_at(slice, p) ==
    IF p >= 72 /\ p < 76 THEN slice.field[p - 71]
    ELSE IF slice.fill = "zero" THEN 0 ELSE p % 251

\* &ssz[a..b]: the bytes, or a panic when the range is not inside the slice.
sub_slice(slice, a, b) ==
    IF a > b \/ b > slice.len THEN [panic |-> TRUE, bytes |-> <<>>]
    ELSE [panic |-> FALSE, bytes |-> [k \in 1..(b - a) |-> byte_at(slice, a + k - 1)]]

RECURSIVE le_value(_, _, _)
le_value(slice, index, n) ==
    IF n = 0 THEN 0 ELSE byte_at(slice, index) + 256 * le_value(slice, index + 1, n - 1)

\* ssz::decode::decode_length(bytes, index, length_bytes): None (Err) when the
\* slice ends before index + length_bytes, else the length stored there.
decode_length(slice, index, length_bytes) ==
    IF slice.len < index + length_bytes THEN None
    ELSE Some(le_value(slice, index, length_bytes))

NotDecoded == [status |-> "none", attestation_len |-> 0, len |-> 0]
BlockErr(e) == [status |-> e, attestation_len |-> 0, len |-> 0]
BlockOk(attestation_len, len) == [status |-> "Ok", attestation_len |-> attestation_len, len |-> len]

\* Mutant of from_slice: the attestation length is examined before the
\* upper bound on the slice.
from_slice_length_first(slice, min_record) ==
    LET len == slice.len
        decoded == decode_length(slice, 72, LENGTH_BYTES)
    IN IF len < MIN_SSZ_BLOCK_LENGTH THEN BlockErr("TooShort")
       ELSE IF decoded = None THEN BlockErr("TooShort")
       ELSE IF decoded[1] < min_record THEN BlockErr("NoAttestationRecords")
       ELSE IF len > MAX_SSZ_BLOCK_LENGTH THEN BlockErr("TooLong")
       ELSE IF len < 76 + decoded[1] + 96 THEN BlockErr("TooShort")
       ELSE BlockOk(decoded[1], len)

\* fn from_slice
from_slice(slice, min_record) ==
    LET len == slice.len
        decoded == decode_length(slice, 72, LENGTH_BYTES)
    IN IF len < MIN_SSZ_BLOCK_LENGTH THEN BlockErr("TooShort")
       ELSE IF len > MAX_SSZ_BLOCK_LENGTH THEN BlockErr("TooLong")
       ELSE IF decoded = None THEN BlockErr("TooShort")
       ELSE IF decoded[1] < min_record THEN BlockErr("NoAttestationRecords")
       ELSE IF len < 76 + decoded[1] + 96 THEN BlockErr("TooShort")
       ELSE BlockOk(decoded[1], len)

\* fn attestations
attestations(slice, block) ==
    sub_slice(slice, 72 + LENGTH_BYTES, 72 + LENGTH_BYTES + block.attestation_len)

\* fn pow_chain_ref
pow_chain_ref(slice, block) == sub_slice(slice, block.len - 96, block.len - 64)

\* fn act_state_root
act_state_root(slice, block) == sub_slice(slice, block.len - 64, block.len - 32)

\* fn cry_state_root
cry_state_root(slice, block) == sub_slice(slice, block.len - 32, block.len)

\* The attestation lengths written into the slices: none, around the minimum
\* record length, and one too large for any block.
AttestationLengths ==
    {0} \cup {m + d : m \in MinRecordLengths, d \in (-1)..MaxExtra} \cup {2 ^ 24 + 1}

\* The slice lengths: too short to hold the length field, around the minimum
\* block length, around 172 + L for each such L, and around the maximum.
SliceLengths ==
    {0, 75, 76}
      \cup {MIN_SSZ_BLOCK_LENGTH + d : d \in (-1)..(2 * MaxExtra + 1)}
      \cup {MIN_SSZ_BLOCK_LENGTH + m + d : m \in MinRecordLengths, d \in (-1)..(2 * MaxExtra + 1)}
      \cup {MAX_SSZ_BLOCK_LENGTH + d : d \in (-1)..1}

Slices ==
    {Slice(len, le_bytes(l, LENGTH_BYTES), fill) :
        len \in SliceLengths, l \in AttestationLengths, fill \in {"zero", "ramp"}}

NoRead == [accessor |-> "none", panic |-> FALSE, bytes |-> <<>>]

BlockInit ==
    /\ blk_slice \in Slices
    /\ blk_min_record \in MinRecordLengths
    /\ blk_result = NotDecoded
    /\ blk_read = NoRead

\* The reader left alone.
BlockIdle ==
    /\ blk_slice = Slice(0, le_bytes(0, LENGTH_BYTES), "zero")
    /\ blk_min_record = 1
    /\ blk_result = NotDecoded
    /\ blk_read = NoRead

\* SszBlock::from_slice(&ssz[..])
FromSlice ==
    /\ blk_result = NotDecoded
    /\ blk_result' = from_slice(blk_slice, blk_min_record)
    /\ UNCHANGED <<blk_slice, blk_min_record, blk_read>>
    /\ UNCHANGED otherThanBlock

Accessors == {"attestations", "pow_chain_ref", "act_state_root", "cry_state_root"}

\* What the named accessor returns.
accessor_bytes(accessor, slice, block) ==
    CASE accessor = "attestations" -> attestations(slice, block)
      [] accessor = "pow_chain_ref" -> pow_chain_ref(slice, block)
      [] accessor = "act_state_root" -> act_state_root(slice, block)
      [] accessor = "cry_state_root" -> cry_state_root(slice, block)

\* An accessor called on the SszBlock from_slice returned.
ReadAccessor(accessor) ==
    /\ blk_result.status = "Ok"
    /\ LET got == accessor_bytes(accessor, blk_slice, blk_result)
       IN blk_read' = [accessor |-> accessor, panic |-> got.panic, bytes |-> got.bytes]
    /\ UNCHANGED <<blk_slice, blk_min_record, blk_result>>
    /\ UNCHANGED otherThanBlock

BlockNext ==
    \/ FromSlice
    \/ \E accessor \in Accessors : ReadAccessor(accessor)

-----------------------------------------------------------------------------
(* SSZ block reader: properties                                            *)

\* The attestation byte-length L stored at offset 72 of the slice.
StoredLength == le_value(blk_slice, 72, LENGTH_BYTES)

\* C19: from_slice returns the first of these that applies: TooShort for a
\* slice shorter than 172 bytes; TooLong for one longer than 172 + 2^24;
\* NoAttestationRecords when the length L at offset 72 is below the minimum
\* attestation record length (L = 0 included); TooShort for a slice shorter
\* than 76 + L + 96; and it succeeds otherwise.
C19_FromSliceChecks ==
    blk_result # NotDecoded =>
       blk_result.status =
          IF blk_slice.len < 172 THEN "TooShort"
          ELSE IF blk_slice.len > 172 + 2 ^ 24 THEN "TooLong"
          ELSE IF StoredLength < blk_min_record THEN "NoAttestationRecords"
          ELSE IF blk_slice.len < 76 + StoredLength + 96 THEN "TooShort"
          ELSE "Ok"

\* C19 witness: a slice longer than the maximum whose attestation length is 0
\* has been refused as TooLong.
C19_Witness ==
    /\ blk_result.status = "TooLong"
    /\ StoredLength = 0

\* C20: for every slice from_slice accepts, with attestation length L,
\* attestations() is bytes [76, 76+L) and pow_chain_ref(), act_state_root()
\* and cry_state_root() are bytes [76+L, 108+L), [108+L, 140+L) and
\* [140+L, 172+L) of the slice.
C20_RootsFollowAttestations ==
    (blk_result.status = "Ok" /\ blk_read.accessor # "none") =>
       LET L == StoredLength
           start == CASE blk_read.accessor = "attestations" -> 76
                      [] blk_read.accessor = "pow_chain_ref" -> 76 + L
                      [] blk_read.accessor = "act_state_root" -> 108 + L
                      [] blk_read.accessor = "cry_state_root" -> 140 + L
           end == IF blk_read.accessor = "attestations" THEN 76 + L ELSE start + 32
       IN /\ ~blk_read.panic
          /\ blk_read.bytes = [k \in 1..(end - start) |-> byte_at(blk_slice, start + k - 1)]

-----------------------------------------------------------------------------
(* Beacon node process                                                     *)

\* --debug-level, possible_values of lines 175-176
DebugLevels == {"info", "debug", "trace", "warn", "error", "crit"}

\* occurrences_of("verbosity")
Verbosities == 0..MaxVerbosity

\* slog::Level, the more severe the higher
severity(level) ==
    CASE level = "crit" -> 5 [] level = "error" -> 4 [] level = "warn" -> 3
      [] level = "info" -> 2 [] level = "debug" -> 1 [] level = "trace" -> 0

\* The match on --debug-level, lines 270-278
debug_level_filter(debug_level) == debug_level

\* The match on -v, lines 280-285
verbosity_filter(verbosity) ==
    CASE verbosity = 0 -> "info" [] verbosity = 1 -> "debug" [] OTHER -> "trace"

\* Drain::filter_level twice over: a record is written when it is at least as
\* severe as both levels.
passes(level, args) ==
    /\ severity(level) >= severity(debug_level_filter(args.debug_level))
    /\ severity(level) >= severity(verbosity_filter(args.verbosity))

\* warn!(log, ...) / crit!(log, ...)
emit(log, level, message, args) ==
    IF passes(level, args) THEN Append(log, [level |-> level, message |-> message])
    ELSE log

\* The exit status of a process whose `fn main()` returned (): 0, whatever
\* happened before the return (lines 15, 301, 310).
main_exit_status(failed) == 0

NodeInit ==
    /\ bn_args \in [debug_level : DebugLevels, verbosity : Verbosities]
    /\ bn_pc = "start"
    /\ bn_log = <<>>
    /\ bn_failed = "none"
    /\ bn_exit = None

\* No beacon node process.
NodeIdle ==
    /\ bn_args = <<>>
    /\ bn_pc = "none"
    /\ bn_log = <<>>
    /\ bn_failed = "none"
    /\ bn_exit = None

\* Lines 264-292: the logger is built and the pre-release warning logged.
BuildLogger ==
    /\ bn_pc = "start"
    /\ bn_pc' = "logging"
    /\ bn_log' = emit(bn_log, "warn", "pre-release", bn_args)
    /\ UNCHANGED <<bn_args, bn_failed, bn_exit>>
    /\ UNCHANGED otherThanNode

\* Lines 297-303: get_configs returns Ok(configs), or Err(e) and main logs at
\* crit and returns.
GetConfigs ==
    /\ bn_pc = "logging"
    /\ \/ /\ bn_pc' = "configured"
          /\ UNCHANGED <<bn_log, bn_failed>>
       \/ /\ bn_pc' = "returned"
          /\ bn_log' = emit(bn_log, "crit", "Failed to load configuration", bn_args)
          /\ bn_failed' = "config"
    /\ UNCHANGED <<bn_args, bn_exit>>
    /\ UNCHANGED otherThanNode

\* Lines 306-310: run_beacon_node returns Ok after the node shut down, or
\* Err(e) and main logs at crit; main ends either way.
RunBeaconNode ==
    /\ bn_pc = "configured"
    /\ bn_pc' = "returned"
    /\ \/ UNCHANGED <<bn_log, bn_failed>>
       \/ /\ bn_log' = emit(bn_log, "crit", "Beacon node failed to start", bn_args)
          /\ bn_failed' = "start"
    /\ UNCHANGED <<bn_args, bn_exit>>
    /\ UNCHANGED otherThanNode

\* main has returned: the process ends with its exit status.
ProcessExit ==
    /\ bn_pc = "returned"
    /\ bn_pc' = "exited"
    /\ bn_exit' = Some(main_exit_status(bn_failed))
    /\ UNCHANGED <<bn_args, bn_log, bn_failed>>
    /\ UNCHANGED otherThanNode

NodeNext ==
    \/ BuildLogger
    \/ GetConfigs
    \/ RunBeaconNode
    \/ ProcessExit

-----------------------------------------------------------------------------
(* Beacon node process: properties                                         *)

\* C21: when loading the configuration or starting the node fails, the last
\* log record is at crit level and the process ends with a non-zero exit
\* status; status 0 is produced only by a clean shutdown.
C21_ExitStatus ==
    bn_pc = "exited" =>
       /\ bn_failed # "none" =>
             /\ Len(bn_log) > 0
             /\ bn_log[Len(bn_log)].level = "crit"
             /\ bn_exit # Some(0)
       /\ bn_exit = Some(0) => bn_failed = "none"

-----------------------------------------------------------------------------
(* B-tree overlay of the cached tree hash                                  *)

\* usize::next_power_of_two: the smallest power of two >= n (1 for n = 0)
RECURSIVE power_of_two_from(_, _)
power_of_two_from(p, n) == IF p >= n THEN p ELSE power_of_two_from(2 * p, n)

next_power_of_two(n) == power_of_two_from(1, n)

\* Iterator::sum over a Vec<usize>
RECURSIVE sum(_)
sum(list) == IF Len(list) = 0 THEN 0 ELSE Head(list) + sum(Tail(list))

\* Mutant of vec_resize: a resize that only ever grows.
vec_grow(vec, new_len, value) ==
    vec \o [k \in 1..(new_len - Len(vec)) |-> value]

\* Vec::resize(new_len, value): truncates a longer vec, extends a shorter one.
vec_resize(vec, new_len, value) ==
    IF new_len <= Len(vec) THEN SubSeq(vec, 1, new_len)
    ELSE vec \o [k \in 1..(new_len - Len(vec)) |-> value]

\* enum LeafNode
DoesNotExist == [kind |-> "DoesNotExist", range |-> <<0, 0>>]
Exists(range) == [kind |-> "Exists", range |-> range]
Padding == [kind |-> "Padding", range |-> <<0, 0>>]

\* BTreeSchema::from_lengths(depth, lengths).into_overlay(offset)
BTreeOverlay(offset, lengths) == [offset |-> offset, lengths |-> lengths]

\* fn num_leaf_nodes
num_leaf_nodes(tree) == next_power_of_two(Len(tree.lengths))

\* fn num_padding_leaves
num_padding_leaves(tree) == num_leaf_nodes(tree) - Len(tree.lengths)

\* fn num_nodes
num_nodes(tree) == 2 * num_leaf_nodes(tree) - 1

\* fn num_internal_nodes
num_internal_nodes(tree) == num_leaf_nodes(tree) - 1

\* fn first_node
first_node(tree) == tree.offset

\* Mutant of next_node: the padding leaves left out.
next_node_unpadded(tree) ==
    first_node(tree) + num_internal_nodes(tree) + sum(tree.lengths)

\* fn next_node
next_node(tree) ==
    first_node(tree) + num_internal_nodes(tree) + num_leaf_nodes(tree)
       - Len(tree.lengths) + sum(tree.lengths)

\* fn internal_chunk_range (a Range a..b is the pair <<a, b>>)
internal_chunk_range(tree) == <<tree.offset, tree.offset + num_internal_nodes(tree)>>

\* fn chunk_range
chunk_range(tree) == <<first_node(tree), next_node(tree)>>

\* fn num_chunks
num_chunks(tree) == next_node(tree) - first_node(tree)

\* fn children
children(parent) == <<2 * parent + 1, 2 * parent + 2>>

\* The loop of n_leaf_node_chunks from leaf i on, lines 175-184.
RECURSIVE leaf_chunks_from(_, _, _, _)
leaf_chunks_from(tree, i, n, chunk) ==
    IF i >= n THEN <<>>
    ELSE <<chunk>> \o leaf_chunks_from(tree, i + 1, n,
              IF i < Len(tree.lengths) THEN chunk + tree.lengths[i + 1] ELSE chunk + 1)

\* fn n_leaf_node_chunks
n_leaf_node_chunks(tree, n) ==
    leaf_chunks_from(tree, 0, n, tree.offset + num_internal_nodes(tree))

\* fn leaf_node_chunks
leaf_node_chunks(tree) == n_leaf_node_chunks(tree, num_leaf_nodes(tree))

\* fn internal_node_chunks
internal_node_chunks(tree) ==
    [k \in 1..num_internal_nodes(tree) |-> tree.offset + k - 1]

\* fn internal_parents_and_children
internal_parents_and_children(tree) ==
    LET node_chunks == internal_node_chunks(tree) \o leaf_node_chunks(tree)
    IN [k \in 1..num_internal_nodes(tree) |->
           <<node_chunks[k], <<node_chunks[children(k - 1)[1] + 1],
                               node_chunks[children(k - 1)[2] + 1]>>>>]

\* fn child_chunks
child_chunks(tree, parent) ==
    IF children(parent)[2] < num_internal_nodes(tree)
    THEN <<children(parent)[1] + tree.offset, children(parent)[2] + tree.offset>>
    ELSE LET leaf_chunks == n_leaf_node_chunks(tree, children(parent)[2])
         IN <<leaf_chunks[Len(leaf_chunks) - 1], leaf_chunks[Len(leaf_chunks)]>>

\* The map over lengths of get_leaf_nodes, lines 61-69.
RECURSIVE leaf_ranges_from(_, _, _)
leaf_ranges_from(lengths, i, running_offset) ==
    IF i > Len(lengths) THEN <<>>
    ELSE <<Exists(<<running_offset, running_offset + lengths[i]>>)>>
            \o leaf_ranges_from(lengths, i + 1, running_offset + lengths[i])

\* fn get_leaf_nodes
get_leaf_nodes(tree, n) ==
    vec_resize(vec_resize(leaf_ranges_from(tree.lengths, 1,
                                           tree.offset + num_internal_nodes(tree)),
                          num_leaf_nodes(tree), Padding),
               n, DoesNotExist)

\* The chunk counts of the leaves: one chunk, or more for a wider leaf.
LeafWidths == 1..MaxWidth

\* The overlays: up to MaxLeaves leaves, at offset 0 or inside a larger cache.
Overlays ==
    {BTreeOverlay(o, l) :
        o \in {0} \cup {10 + k : k \in 1..MaxOffsets},
        l \in UNION {[1..n -> LeafWidths] : n \in 0..MaxLeaves}}

NoQuery == [fn |-> "none", arg |-> 0]

NoAnswer == [pair |-> <<0, 0>>, pairs |-> <<>>, leaves |-> <<>>, num |-> 0]

OverlayInit ==
    /\ bt_tree \in Overlays
    /\ bt_query = NoQuery
    /\ bt_answer = NoAnswer

\* No overlay.
OverlayIdle ==
    /\ bt_tree = <<>>
    /\ bt_query = NoQuery
    /\ bt_answer = NoAnswer

\* tree.child_chunks(parent) for an internal node
ChildChunks(parent) ==
    /\ parent < num_internal_nodes(bt_tree)
    /\ bt_query' = [fn |-> "child_chunks", arg |-> parent]
    /\ bt_answer' = [NoAnswer EXCEPT !.pair = child_chunks(bt_tree, parent)]
    /\ UNCHANGED bt_tree
    /\ UNCHANGED otherThanOverlay

\* tree.internal_parents_and_children()
InternalParentsAndChildren ==
    /\ bt_query' = [fn |-> "internal_parents_and_children", arg |-> 0]
    /\ bt_answer' = [NoAnswer EXCEPT !.pairs = internal_parents_and_children(bt_tree)]
    /\ UNCHANGED bt_tree
    /\ UNCHANGED otherThanOverlay

\* tree.get_leaf_nodes(n)
GetLeafNodes(n) ==
    /\ bt_query' = [fn |-> "get_leaf_nodes", arg |-> n]
    /\ bt_answer' = [NoAnswer EXCEPT !.leaves = get_leaf_nodes(bt_tree, n)]
    /\ UNCHANGED bt_tree
    /\ UNCHANGED otherThanOverlay

\* tree.chunk_range()
ChunkRange ==
    /\ bt_query' = [fn |-> "chunk_range", arg |-> 0]
    /\ bt_answer' = [NoAnswer EXCEPT !.pair = chunk_range(bt_tree)]
    /\ UNCHANGED bt_tree
    /\ UNCHANGED otherThanOverlay

\* tree.internal_chunk_range()
InternalChunkRange ==
    /\ bt_query' = [fn |-> "internal_chunk_range", arg |-> 0]
    /\ bt_answer' = [NoAnswer EXCEPT !.pair = internal_chunk_range(bt_tree)]
    /\ UNCHANGED bt_tree
    /\ UNCHANGED otherThanOverlay

\* tree.num_chunks()
NumChunks ==
    /\ bt_query' = [fn |-> "num_chunks", arg |-> 0]
    /\ bt_answer' = [NoAnswer EXCEPT !.num = num_chunks(bt_tree)]
    /\ UNCHANGED bt_tree
    /\ UNCHANGED otherThanOverlay

OverlayNext ==
    \/ \E parent \in 0..(2 * MaxLeaves) : ChildChunks(parent)
    \/ InternalParentsAndChildren
    \/ \E n \in 0..(2 * MaxLeaves + 1) : GetLeafNodes(n)
    \/ ChunkRange
    \/ InternalChunkRange
    \/ NumChunks

-----------------------------------------------------------------------------
(* B-tree overlay: properties                                              *)

\* The smallest power of two >= n.
LeastPowerOfTwo(n) ==
    CHOOSE p \in {2 ^ k : k \in 0..6} : p >= n /\ (p = 1 \/ p \div 2 < n)

\* The sum of the first i entries of a list.
PrefixSum(list, i) == sum(SubSeq(list, 1, i))

\* C22: for every internal node p, child_chunks(p) is the (left, right) pair
\* that internal_parents_and_children() reports for parent p.
C22_ChildChunks ==
    bt_query.fn = "child_chunks" =>
       bt_answer.pair = internal_parents_and_children(bt_tree)[bt_query.arg + 1][2]

\* C23: get_leaf_nodes(n) returns exactly n entries; entry i is Exists(r_i)
\* for i < |l|, r_i of width l[i], r_0 starting at o + num_internal_nodes and
\* each next range starting where the last ends; Padding for
\* |l| <= i < next_power_of_two(|l|); DoesNotExist beyond.
C23_LeafNodes ==
    bt_query.fn = "get_leaf_nodes" =>
       LET l == bt_tree.lengths
           leaves == bt_answer.leaves
           first_leaf == bt_tree.offset + LeastPowerOfTwo(Len(l)) - 1
       IN /\ Len(leaves) = bt_query.arg
          /\ \A i \in 0..(Len(leaves) - 1) :
                leaves[i + 1] =
                   IF i < Len(l)
                   THEN [kind |-> "Exists",
                         range |-> <<first_leaf + PrefixSum(l, i),
                                     first_leaf + PrefixSum(l, i) + l[i + 1]>>]
                   ELSE IF i < LeastPowerOfTwo(Len(l))
                   THEN [kind |-> "Padding", range |-> <<0, 0>>]
                   ELSE [kind |-> "DoesNotExist", range |-> <<0, 0>>]

\* C23 witness: on an overlay at a non-zero offset, get_leaf_nodes has
\* returned a leaf two chunks wide, a padding leaf and a leaf that does not
\* exist, and for another call fewer entries than there are leaves.
C23_Witness ==
    /\ bt_query.fn = "get_leaf_nodes"
    /\ bt_tree.offset > 0
    /\ \/ /\ \E i \in 1..Len(bt_answer.leaves) :
                /\ bt_answer.leaves[i].kind = "Exists"
                /\ bt_answer.leaves[i].range[2] - bt_answer.leaves[i].range[1] = 2
          /\ \E i \in 1..Len(bt_answer.leaves) : bt_answer.leaves[i].kind = "Padding"
          /\ \E i \in 1..Len(bt_answer.leaves) : bt_answer.leaves[i].kind = "DoesNotExist"
          /\ bt_query.arg > 4
       \/ /\ bt_query.arg = 1
          /\ Len(bt_tree.lengths) = 3
          /\ bt_tree.lengths[1] = 2

\* The chunks lo, lo + 1, ..., hi - 1 of a range.
ChunksOf(range) == range[1]..(range[2] - 1)

\* The chunks of the padding leaves: one each, after the last leaf range.
PaddingChunks(tree) ==
    {leaf_node_chunks(tree)[i] : i \in (Len(tree.lengths) + 1)..num_leaf_nodes(tree)}

\* The chunks of the leaf ranges get_leaf_nodes reports.
LeafChunks(tree) ==
    UNION {ChunksOf(get_leaf_nodes(tree, Len(tree.lengths))[i].range) :
              i \in 1..Len(tree.lengths)}

\* C24: chunk_range() is [o, o + num_internal_nodes + sum(l) + padding
\* leaves), internal_chunk_range() is its prefix [o, o + num_internal_nodes),
\* num_chunks() is the width of chunk_range(), and the internal chunks, the
\* leaf ranges and one chunk per padding leaf tile chunk_range(): together
\* they are all of it, and their sizes add up to its width.
C24_ChunkRanges ==
    bt_tree # <<>> =>
       LET o == bt_tree.offset
           l == bt_tree.lengths
           internal == LeastPowerOfTwo(Len(l)) - 1
           padding == LeastPowerOfTwo(Len(l)) - Len(l)
           width == internal + sum(l) + padding
       IN /\ chunk_range(bt_tree) = <<o, o + width>>
          /\ internal_chunk_range(bt_tree) = <<o, o + internal>>
          /\ num_chunks(bt_tree) = width
          /\ ChunksOf(internal_chunk_range(bt_tree)) \cup LeafChunks(bt_tree)
                \cup PaddingChunks(bt_tree) = ChunksOf(chunk_range(bt_tree))
          /\ Cardinality(ChunksOf(internal_chunk_range(bt_tree)))
                + Cardinality(LeafChunks(bt_tree))
                + Cardinality(PaddingChunks(bt_tree)) = width
          /\ Cardinality(LeafChunks(bt_tree)) = sum(l)
          /\ bt_query.fn = "chunk_range" => bt_answer.pair = <<o, o + width>>
          /\ bt_query.fn = "internal_chunk_range" => bt_answer.pair = <<o, o + internal>>
          /\ bt_query.fn = "num_chunks" => bt_answer.num = width

\* C24 witness: chunk_range() was asked of an overlay at a non-zero offset
\* with three leaves, one of them two chunks wide, hence one padding leaf.
C24_Witness ==
    /\ bt_query.fn = "chunk_range"
    /\ bt_tree.offset > 0
    /\ Len(bt_tree.lengths) = 3
    /\ bt_tree.lengths[2] = 2
    /\ bt_answer.pair[2] - bt_answer.pair[1] = 3 + sum(bt_tree.lengths) + 1

-----------------------------------------------------------------------------
(* Attester slashing builder                                               *)
(* consensus/types/src/test_utils/builders/testing_attester_slashing_builder.rs *)

\* AttesterSlashingTestTask; double_vote compares it with three variants.
AttesterSlashingTestTasks ==
    {"Valid", "NotSlashable", "IndexedAttestation1Invalid", "IndexedAttestation2Invalid"}

\* The validator_indices a caller passes: any list, sorted or not.
ValidatorIndexLists ==
    UNION {[1..n -> 0..MaxAttester] : n \in 0..MaxAttesters}

\* Checkpoint { epoch, root }; Hash256::from_low_u64_le(k) is written k.
Checkpoint(at_epoch, at_root) == [epoch |-> at_epoch, root |-> at_root]

checkpoint_1 == Checkpoint(1, 1)

checkpoint_2 == Checkpoint(1, 2)

\* AttestationData at slot 1, index 0, block root hash_1.
data_1 ==
    [slot |-> 1, index |-> 0, beacon_block_root |-> 1,
     source |-> checkpoint_1, target |-> checkpoint_1]

\* A variant of data_2: the clone of data_1 for every task.
data_2_cloned(test_task) == data_1

\* data_2: the clone of data_1 for NotSlashable, else data_1 with the
\* target replaced by checkpoint_2.
data_2(test_task) ==
    IF test_task = "NotSlashable"
    THEN data_1
    ELSE [data_1 EXCEPT !.target = checkpoint_2]

\* attesting_indices of the attestation that invalid_task names.
attesting_indices(test_task, invalid_task, validator_indices) ==
    IF test_task = invalid_task THEN <<1, 0>> ELSE validator_indices

\* add_signatures: one signature per supplied validator index, in order,
\* over the signing root of the data under the BeaconAttester domain of the
\* target epoch.
add_signatures(attestation, validator_indices) ==
    LET domain == [epoch |-> attestation.data.target.epoch, kind |-> "BeaconAttester"]
        message == [data |-> attestation.data, domain |-> domain]
    IN [attestation EXCEPT !.signature =
           [i \in 1..Len(validator_indices) |->
               [signer |-> validator_indices[i], message |-> message]]]

IndexedAttestation(indices, data) ==
    [attesting_indices |-> indices, data |-> data, signature |-> <<>>]

double_vote(test_task, validator_indices) ==
    LET attestation_1 ==
            IndexedAttestation(
                attesting_indices(test_task, "IndexedAttestation1Invalid", validator_indices),
                data_1)
        attestation_2 ==
            IndexedAttestation(
                attesting_indices(test_task, "IndexedAttestation2Invalid", validator_indices),
                data_2(test_task))
    IN [attestation_1 |-> add_signatures(attestation_1, validator_indices),
        attestation_2 |-> add_signatures(attestation_2, validator_indices)]

SlashingInit ==
    /\ sl_indices \in ValidatorIndexLists
    /\ sl_task = "none"
    /\ sl_slashing = <<>>

SlashingIdle ==
    /\ sl_indices = <<>>
    /\ sl_task = "none"
    /\ sl_slashing = <<>>

\* One call of double_vote with the validator_indices at hand.
DoubleVote(test_task) ==
    /\ sl_task' = test_task
    /\ sl_slashing' = <<double_vote(test_task, sl_indices)>>
    /\ UNCHANGED sl_indices
    /\ UNCHANGED otherThanSlashing

SlashingNext ==
    \E test_task \in AttesterSlashingTestTasks : DoubleVote(test_task)

-----------------------------------------------------------------------------
(* Attester slashing builder: properties                                   *)

\* Double vote: same target epoch, different data.
IsDoubleVote(a1, a2) ==
    a1.data.target.epoch = a2.data.target.epoch /\ a1.data # a2.data

\* Surround vote: a1.source.epoch < a2.source.epoch < a2.target.epoch
\* < a1.target.epoch.
IsSurroundVote(a1, a2) ==
    /\ a1.data.source.epoch < a2.data.source.epoch
    /\ a2.data.source.epoch < a2.data.target.epoch
    /\ a2.data.target.epoch < a1.data.target.epoch

\* C25: for every test_task other than NotSlashable the two attestations
\* share the source checkpoint and the target epoch and differ in target
\* root: a double vote and not a surround vote (either way round); for
\* NotSlashable the two AttestationData are identical. attesting_indices is
\* the supplied validator_indices except that the attestation the task
\* names invalid gets [1, 0].
C25_DoubleVote ==
    sl_task # "none" =>
       LET a1 == sl_slashing[1].attestation_1
           a2 == sl_slashing[1].attestation_2
       IN /\ sl_task # "NotSlashable" =>
                /\ a1.data.source = a2.data.source
                /\ a1.data.target.epoch = a2.data.target.epoch
                /\ a1.data.target.root # a2.data.target.root
                /\ IsDoubleVote(a1, a2)
                /\ ~IsSurroundVote(a1, a2)
                /\ ~IsSurroundVote(a2, a1)
          /\ sl_task = "NotSlashable" => a1.data = a2.data
          /\ a1.attesting_indices =
                IF sl_task = "IndexedAttestation1Invalid" THEN <<1, 0>> ELSE sl_indices
          /\ a2.attesting_indices =
                IF sl_task = "IndexedAttestation2Invalid" THEN <<1, 0>> ELSE sl_indices

\* C25 witness: double_vote has built a slashing for the task that makes
\* the second attestation invalid, from supplied indices other than [1, 0].
C25_Witness ==
    /\ sl_task = "IndexedAttestation2Invalid"
    /\ sl_indices = <<0, 2>>
    /\ sl_slashing[1].attestation_1.attesting_indices = <<0, 2>>
    /\ sl_slashing[1].attestation_2.attesting_indices = <<1, 0>>
    /\ sl_slashing[1].attestation_2.data.target.root = 2

-----------------------------------------------------------------------------
(* Delegation: the sparse branch of generate_cycle                         *)

\* generate_cycle got past its shard guard and took the branch for
\* validator_count < cycle_length * min_committee_size.
SparseBranchTaken ==
    /\ dg_generated
    /\ dg_input.cycle_length >= 1
    /\ ~shards_too_few(dg_input.shard_count, dg_input.cycle_length)
    /\ Len(CycleInput) < dg_input.cycle_length * dg_input.min_committee_size

\* s is a power of two and validator_count * s reaches
\* cycle_length * min_committee_size.
Suffices(s) ==
    /\ s \in {2 ^ k : k \in 0..6}
    /\ Len(CycleInput) * s >= dg_input.cycle_length * dg_input.min_committee_size

\* C26 as claimed: in the sparse branch committees_per_slot = 1 and
\* slots_per_committee is the smallest power of two s with
\* validator_count * s >= cycle_length * min_committee_size, capped at
\* cycle_length, so that it never exceeds cycle_length.
C26_AsClaimed ==
    SparseBranchTaken =>
       /\ ResultShape.committees_per_slot = 1
       /\ ResultShape.slots_per_committee <= dg_input.cycle_length
       /\ \/ ResultShape.slots_per_committee = dg_input.cycle_length
          \/ /\ Suffices(ResultShape.slots_per_committee)
             /\ \A s \in 1..(ResultShape.slots_per_committee - 1) : ~Suffices(s)

\* C26 (amended): in the sparse branch committees_per_slot = 1 and
\* slots_per_committee is the smaller of the smallest power of two s with
\* validator_count * s >= cycle_length * min_committee_size and the smallest
\* power of two that is >= cycle_length; so it is a power of two below
\* 2 * cycle_length, reached after fewer than cycle_length doublings.
C26_SlotsPerCommittee ==
    SparseBranchTaken =>
       LET spc == ResultShape.slots_per_committee
           cap == LeastPowerOfTwo(dg_input.cycle_length)
       IN /\ ResultShape.committees_per_slot = 1
          /\ spc \in {2 ^ k : k \in 0..(dg_input.cycle_length - 1)}
          /\ spc <= cap
          /\ spc < 2 * dg_input.cycle_length
          /\ spc = cap \/ Suffices(spc)
          /\ \A s \in 1..(spc - 1) : ~Suffices(s)

\* C26 witness: generate_cycle took the sparse branch with a cycle_length
\* that is no power of two and too few validators for any smaller power,
\* and doubled slots_per_committee past cycle_length.
C26_Witness ==
    /\ SparseBranchTaken
    /\ dg_input.cycle_length = 3
    /\ Len(CycleInput) >= 1
    /\ ResultShape.slots_per_committee = 4

-----------------------------------------------------------------------------
(* honey_badger_split (beacon_chain/transition/src/delegation/validator.rs) *)

\* The lists handed to honey_badger_split.
SplitLists == UNION {[1..len -> 0..1] : len \in 0..MaxSplitLen}

\* list.get(lo..hi): None when lo > hi or hi > list.len().
slice_get(list, lo, hi) ==
    IF lo > hi \/ hi > Len(list) THEN None ELSE Some(SubSeq(list, lo + 1, hi))

\* Mutant of partition_range: chunks of the fixed size list_length / n.
partition_range_fixed(list_length, i, n) ==
    <<(list_length \div n) * i, (list_length \div n) * (i + 1)>>

\* list_length*i/n..list_length*(i+1)/n
partition_range(list_length, i, n) ==
    <<(list_length * i) \div n, (list_length * (i + 1)) \div n>>

\* The loop `for i in 0..n` from i on; a None from get is unreachable!().
RECURSIVE split_from(_, _, _, _)
split_from(list, n, i, split_list) ==
    IF i >= n THEN [status |-> "Ok", split_list |-> split_list]
    ELSE LET range == partition_range(Len(list), i, n)
             partition == slice_get(list, range[1], range[2])
         IN IF partition = None
            THEN [status |-> "Panic", split_list |-> <<>>]
            ELSE split_from(list, n, i + 1, Append(split_list, partition[1]))

honey_badger_split(list, n) == split_from(list, n, 0, <<>>)

NotSplit == [status |-> "none", split_list |-> <<>>]

SplitInit ==
    /\ hb_list \in SplitLists
    /\ hb_n = 0
    /\ hb_result = NotSplit

SplitIdle ==
    /\ hb_list = <<>>
    /\ hb_n = 0
    /\ hb_result = NotSplit

\* One call honey_badger_split(&list, n).
HoneyBadgerSplit(n) ==
    /\ hb_n' = n
    /\ hb_result' = honey_badger_split(hb_list, n)
    /\ UNCHANGED hb_list
    /\ UNCHANGED otherThanSplit

SplitNext ==
    \E n \in 0..MaxParts : HoneyBadgerSplit(n)

-----------------------------------------------------------------------------
(* honey_badger_split: properties                                          *)

-----------------------------------------------------------------------------
(* BeaconStateBuilder (eth2/types/src/beacon_state/builder.rs)             *)

\* ChainSpec::foundation().epoch_length
foundation_epoch_length == 64

\* Epoch::end_slot(epoch_length): the last slot of the epoch.
end_slot(at_epoch, length) == (at_epoch + 1) * length - 1

\* What BeaconState::genesis returns on success: slot 0, nothing justified,
\* no attestations.
genesis_state ==
    [slot |-> 0,
     validator_registry_update_epoch |-> 0,
     previous_calculation_epoch |-> 0,
     current_calculation_epoch |-> 0,
     previous_epoch_seed |-> "zero",
     current_epoch_seed |-> "zero",
     previous_justified_epoch |-> 0,
     justified_epoch |-> 0,
     justification_bits |-> 0,
     finalized_epoch |-> 0,
     latest_attestations |-> 0]

\* The outcomes of a builder call: (the builder's state after it, what
\* the call gave back).
Outcome(state, ret) == [state |-> state, ret |-> ret]

GenesisRequired == [kind |-> "panic", msg |-> "Genesis required", state |-> <<>>]

UnwrapFailed == [kind |-> "panic", msg |-> "unwrap", state |-> <<>>]

Gave(kind) == [kind |-> kind, msg |-> "", state |-> <<>>]

\* genesis(): `?` passes the error of BeaconState::genesis on and leaves
\* self.state as it was; on success self.state = Some(state).
genesis(state, genesis_ok) ==
    IF genesis_ok
    THEN Outcome(Some(genesis_state), Gave("Ok"))
    ELSE Outcome(state, Gave("Err"))

\* teleport_to_end_of_epoch(epoch); u64::max_value() has all 64 bits set.
teleport_to_end_of_epoch(state, at_epoch) ==
    IF state = None THEN Outcome(state, GenesisRequired)
    ELSE Outcome(
            Some([state[1] EXCEPT
                    !.slot = end_slot(at_epoch, foundation_epoch_length),
                    !.validator_registry_update_epoch = at_epoch - 1,
                    !.previous_calculation_epoch = at_epoch - 1,
                    !.current_calculation_epoch = at_epoch,
                    !.previous_epoch_seed = "previous_seed",
                    !.current_epoch_seed = "current_seed",
                    !.previous_justified_epoch = at_epoch - 2,
                    !.justified_epoch = at_epoch - 1,
                    !.justification_bits = 64,
                    !.finalized_epoch = at_epoch - 1]),
            Gave("unit"))

\* insert_attestations(): the committees come from the epoch cache; `pushed`
\* is how many attestations they gave, and `unwrapped` is FALSE when one of
\* the unwrap() calls met an Err.
insert_attestations(state, unwrapped, pushed) ==
    IF state = None THEN Outcome(state, GenesisRequired)
    ELSE IF ~unwrapped THEN Outcome(state, UnwrapFailed)
    ELSE Outcome(
            Some([state[1] EXCEPT !.latest_attestations = @ + pushed]),
            Gave("unit"))

\* Mutant of build: Option::take in place of the clone.
build_taking(state) ==
    IF state = None THEN Outcome(state, GenesisRequired)
    ELSE Outcome(None, [kind |-> "Ok", msg |-> "", state |-> state])

\* build(&self): Ok(state.clone()), or the panic.
build(state) ==
    IF state = None THEN Outcome(state, GenesisRequired)
    ELSE Outcome(state, [kind |-> "Ok", msg |-> "", state |-> state])

NoCall == [op |-> "none", ret |-> Gave("none")]

\* with_random_validators: state: None.
BuilderInit ==
    /\ bs_state = None
    /\ bs_genesis_ok = FALSE
    /\ bs_panicked = FALSE
    /\ bs_last = NoCall
    /\ bs_prev = NoCall

BuilderIdle ==
    /\ bs_state = <<>>
    /\ bs_genesis_ok = FALSE
    /\ bs_panicked = TRUE
    /\ bs_last = <<>>
    /\ bs_prev = <<>>

\* The effect of one call on the builder and on the record of calls; a
\* panic unwinds the thread that owns the builder.
Call(op, result) ==
    /\ ~bs_panicked
    /\ bs_state' = result.state
    /\ bs_panicked' = (result.ret.kind = "panic")
    /\ bs_prev' = bs_last
    /\ bs_last' = [op |-> op, ret |-> result.ret]
    /\ UNCHANGED otherThanBuilder

Genesis(genesis_ok) ==
    /\ Call("genesis", genesis(bs_state, genesis_ok))
    /\ bs_genesis_ok' = (bs_genesis_ok \/ genesis_ok)

TeleportToEndOfEpoch(at_epoch) ==
    /\ Call("teleport_to_end_of_epoch", teleport_to_end_of_epoch(bs_state, at_epoch))
    /\ UNCHANGED bs_genesis_ok

InsertAttestations(unwrapped, pushed) ==
    /\ bs_state # None => bs_state[1].latest_attestations + pushed <= MaxAttestations
    /\ Call("insert_attestations", insert_attestations(bs_state, unwrapped, pushed))
    /\ UNCHANGED bs_genesis_ok

Build ==
    /\ Call("build", build(bs_state))
    /\ UNCHANGED bs_genesis_ok

BuilderNext ==
    \/ \E genesis_ok \in BOOLEAN : Genesis(genesis_ok)
    \/ \E at_epoch \in 2..(2 + MaxTeleport) : TeleportToEndOfEpoch(at_epoch)
    \/ \E unwrapped \in BOOLEAN, pushed \in 0..1 : InsertAttestations(unwrapped, pushed)
    \/ Build

-----------------------------------------------------------------------------
(* BeaconStateBuilder: properties                                          *)

\* C28: teleport_to_end_of_epoch, insert_attestations and build yield a
\* result only after genesis() has returned Ok; called before that they
\* panic with "Genesis required" rather than returning an error. After a
\* successful genesis, build() returns a clone equal to the builder's
\* current state and leaves the builder unchanged, so consecutive build()
\* calls return equal states.
C28_GenesisRequired ==
    /\ [](bs_last # <<>> =>
            /\ (bs_last.op \in {"teleport_to_end_of_epoch", "insert_attestations", "build"}) =>
                  /\ ~bs_genesis_ok => bs_last.ret = GenesisRequired
                  /\ bs_genesis_ok => bs_last.ret # GenesisRequired
                  /\ bs_last.ret.kind # "Err"
            /\ (bs_last.op = "build" /\ bs_genesis_ok) =>
                  /\ bs_last.ret.kind = "Ok"
                  /\ bs_last.ret.state = bs_state
                  /\ bs_state # None
            /\ (bs_last.op = "build" /\ bs_prev.op = "build" /\ bs_genesis_ok) =>
                  bs_last.ret = bs_prev.ret)
    /\ [][(bs_last # <<>> /\ bs_last'.op = "build") => bs_state' = bs_state]_vars

\* C28 witness: after genesis, a teleport and inserted attestations, build
\* was called twice in a row; and, in another run, build before genesis
\* has panicked.
C28_Witness ==
    /\ bs_last # <<>>
    /\ bs_last.op = "build"
    /\ \/ /\ bs_genesis_ok
          /\ bs_prev.op = "build"
          /\ bs_last.ret.state[1].slot > 0
          /\ bs_last.ret.state[1].latest_attestations > 0
       \/ /\ ~bs_genesis_ok
          /\ bs_prev.op = "genesis"
          /\ bs_panicked

-----------------------------------------------------------------------------
(* Duties manager: concurrent polls and the frame of poll()                *)

\* No initial map has an entry for the key.
InitiallyAbsent(key) == \A initial \in InitialMaps : initial[key] = None

\* The poll of m was answered Some(d) and has ended with a PollOutcome.
Compared(m) ==
    /\ pc[m] = "done"
    /\ GotSome(m)
    /\ outcome[m] \in {"NewDuties", "NoChange", "DutiesChanged"}

\* The keys that have an entry.
Present(map) == {k \in Keys : map[k] # None}

C30_PollFrame ==
    [][duties_map' # duties_map =>
          /\ Present(duties_map) \subseteq Present(duties_map')
          /\ Cardinality(Present(duties_map')) <= Cardinality(Present(duties_map)) + 1
          /\ \E m \in Managers :
                /\ pc[m] = "locked" /\ pc'[m] = "done"
                /\ \A k \in Keys \ {PollKey(m)} : duties_map'[k] = duties_map[k]
                /\ duties_map'[PollKey(m)] = reply[m].val]_vars

\* C30 witness: the map held an entry for (pkA, 0); a poll of the manager of
\* pkB has added the entry for its own key, and the entry of (pkA, 0) is
\* still the initial one.
C30_Witness ==
    /\ mgr_pubkey["m2"] = "pkB"
    /\ Compared("m2")
    /\ outcome["m2"] = "NewDuties"
    /\ duties_map[PollKey("m2")] = reply["m2"].val
    /\ duties_map[<<"pkA", 0>>] = Some([block_production_slot |-> Some(10), shard |-> Some(12)])
    /\ Cardinality(Present(duties_map)) = 2

-----------------------------------------------------------------------------
(* Specifications: one per component, the other components left idle      *)

InitDuties == DutiesInit /\ DelegationIdle /\ StoreIdle /\ BitfieldIdle /\ BlockIdle /\ NodeIdle /\ OverlayIdle /\ SlashingIdle /\ SplitIdle /\ BuilderIdle

SpecDuties == InitDuties /\ [][DutiesNext]_vars

InitDelegation == DelegationInit /\ DutiesIdle /\ StoreIdle /\ BitfieldIdle /\ BlockIdle /\ NodeIdle /\ OverlayIdle /\ SlashingIdle /\ SplitIdle /\ BuilderIdle

SpecDelegation == InitDelegation /\ [][DelegationNext]_vars

InitStore == StoreInit /\ DutiesIdle /\ DelegationIdle /\ BitfieldIdle /\ BlockIdle /\ NodeIdle /\ OverlayIdle /\ SlashingIdle /\ SplitIdle /\ BuilderIdle

SpecStore == InitStore /\ [][StoreNext]_vars

InitBitfield == BitfieldInit /\ DutiesIdle /\ DelegationIdle /\ StoreIdle /\ BlockIdle /\ NodeIdle /\ OverlayIdle /\ SlashingIdle /\ SplitIdle /\ BuilderIdle

SpecBitfield == InitBitfield /\ [][BitfieldNext]_vars

InitBlock == BlockInit /\ DutiesIdle /\ DelegationIdle /\ StoreIdle /\ BitfieldIdle /\ NodeIdle /\ OverlayIdle /\ SlashingIdle /\ SplitIdle /\ BuilderIdle

SpecBlock == InitBlock /\ [][BlockNext]_vars

InitNode == NodeInit /\ DutiesIdle /\ DelegationIdle /\ StoreIdle /\ BitfieldIdle /\ BlockIdle /\ OverlayIdle /\ SlashingIdle /\ SplitIdle /\ BuilderIdle

SpecNode == InitNode /\ [][NodeNext]_vars

InitOverlay == OverlayInit /\ DutiesIdle /\ DelegationIdle /\ StoreIdle /\ BitfieldIdle /\ BlockIdle /\ NodeIdle /\ SlashingIdle /\ SplitIdle /\ BuilderIdle

SpecOverlay == InitOverlay /\ [][OverlayNext]_vars

InitSlashing == SlashingInit /\ DutiesIdle /\ DelegationIdle /\ StoreIdle /\ BitfieldIdle /\ BlockIdle /\ NodeIdle /\ OverlayIdle /\ SplitIdle /\ BuilderIdle

SpecSlashing == InitSlashing /\ [][SlashingNext]_vars

InitSplit == SplitInit /\ DutiesIdle /\ DelegationIdle /\ StoreIdle /\ BitfieldIdle /\ BlockIdle /\ NodeIdle /\ OverlayIdle /\ SlashingIdle /\ BuilderIdle

SpecSplit == InitSplit /\ [][SplitNext]_vars

InitBuilder == BuilderInit /\ DutiesIdle /\ DelegationIdle /\ StoreIdle /\ BitfieldIdle /\ BlockIdle /\ NodeIdle /\ OverlayIdle /\ SlashingIdle /\ SplitIdle

SpecBuilder == InitBuilder /\ [][BuilderNext]_vars

====
